---- MODULE Spec2Model ----
(***************************************************************************)
(* Living Voices dataset pipeline: the three persona processors            *)
(* (DuFuRAGProcessor, ElonMuskDataProcessor, QueenElizabethDataProcessor), *)
(* the fixed-window segmenter _chunk_document and DatasetValidator.        *)
(*                                                                         *)
(* A Python str is a sequence of one-token strings (a token is a character *)
(* or an atomic literal such as "Title: "); "" is << >>.  A dict is a      *)
(* record; a list is a sequence.  Python truthiness of a str, list or dict *)
(* is non-emptiness of its domain.                                         *)
(***************************************************************************)
EXTENDS Integers, Sequences, FiniteSets, TLC

VARIABLES
    persona,               \* which processor object was constructed
    pc,                    \* position of the running pipeline
    runs,                  \* completed calls of _generate_training_chunks / _create_chunks
    poems,                 \* DuFuRAGProcessor.poems
    structured_documents,  \* DuFuRAGProcessor.structured_documents
    training_chunks,       \* DuFuRAGProcessor.training_chunks
    raw,                   \* raw JSON of the Elon Musk / Queen Elizabeth II collectors
    documents,             \* ElonMuskDataProcessor.documents, QE [biography] + articles
    chunks,                \* ElonMuskDataProcessor.chunks, QE _create_chunks.chunks
    doc_index,             \* QE _create_chunks: index of the document being chunked
    document,              \* _chunk_document: its document argument
    chunk_size,            \* _chunk_document: chunk_size
    overlap,               \* _chunk_document: overlap
    words,                 \* _chunk_document: words
    start,                 \* _chunk_document: start
    chunk_id,              \* _chunk_document: chunk_id (loop counter)
    wchunks,               \* _chunk_document: its local list chunks
    files,                 \* the processed_data directory: file name -> content
    issues,                \* DatasetValidator.issues
    warnings,              \* DatasetValidator.warnings
    result,                \* what DatasetValidator.validate returned
    stats,                 \* DatasetValidator.stats
    loaded_documents,      \* DatasetValidator.documents
    loaded_chunks,         \* DatasetValidator.chunks
    exit_code,             \* the exit status of validate_dataset.main
    clock,                 \* what datetime.now() returns
    xml,                   \* the top-level elements of the XML file, in document order
    scan_pos,              \* extract_all_dufu_poems: elements whose end event was handled
    extractor_stats,       \* DuFuXMLExtractor.stats
    dufu_poems,            \* DuFuXMLExtractor.dufu_poems
    root_children,         \* the children the iterparse root element still refers to
    request_config,        \* APIConfig.request_config
    retry_count,           \* _make_request: retry_count of the running invocation
    requests,              \* session.get calls issued since collect_poems called _make_request
    sleeps,                \* the time.sleep arguments of _make_request since that call
    response,              \* what _make_request returned
    page_no,               \* collect_poems: page_no
    all_poems,             \* collect_poems: all_poems
    collection_log,        \* the collector's collection_log
    max_pages,             \* collect_poems: max_pages (0 is None)
    wikipedia_articles,    \* DuFuWikipediaCollector.wikipedia_articles
    article_index          \* collect_all: articles of articles_to_collect handled

vars == <<persona, pc, runs, poems, structured_documents, training_chunks, raw,
          documents, chunks, doc_index, document, chunk_size, overlap, words,
          start, chunk_id, wchunks, files, issues, warnings, result, stats,
          loaded_documents, loaded_chunks, exit_code, clock, xml, scan_pos,
          extractor_stats, dufu_poems, root_children, request_config,
          retry_count, requests, sleeps, response, page_no, all_poems,
          collection_log, max_pages, wikipedia_articles, article_index>>

dufuVars == <<poems, structured_documents, training_chunks>>
windowVars == <<document, chunk_size, overlap, words, start, chunk_id, wchunks>>
validatorVars == <<issues, warnings, result, stats, loaded_documents, loaded_chunks,
                   exit_code>>
extractorVars == <<xml, scan_pos, extractor_stats, dufu_poems, root_children>>
requestVars == <<request_config, retry_count, requests, sleeps, response>>
collectorVars == <<page_no, all_poems, collection_log, max_pages, wikipedia_articles,
                   article_index>>
processorVars == <<runs, dufuVars, raw, documents, chunks, doc_index, windowVars,
                   validatorVars, clock>>

-----------------------------------------------------------------------------
(* Bounds of the model *)

MaxPoems == 2
MaxArticles == 1
MaxRuns == 2
MaxWords == 4
MaxWindow == 3
MaxIter == 6
MaxRecords == 2
MaxElements == 3
MaxRetries == 1
MaxDelay == 2
MaxPages == 2
MaxWikiArticles == 2

(* Program constants *)

ChunkSize == 500
Overlap == 100
SummaryMin == 100
FullTextAnnotations == 5
ChunkAnnotations == 10

-----------------------------------------------------------------------------
(* Python string and list primitives *)

NoValue == << >>

Truthy(v) == DOMAIN v # {}

Get(rec, field, default) == IF field \in DOMAIN rec THEN rec[field] ELSE default

Or(a, b) == IF Truthy(a) THEN a ELSE b

Min(a, b) == IF a <= b THEN a ELSE b

Max(a, b) == IF a >= b THEN a ELSE b

IsSpace(t) == t \in {" ", "\n"}

RECURSIVE Concat(_)
Concat(ss) == IF ss = << >> THEN << >> ELSE Head(ss) \o Concat(Tail(ss))

\* sep.join(parts), joined by halves
RECURSIVE Join(_, _)
Join(sep, parts) ==
    IF parts = << >> THEN << >>
    ELSE IF Len(parts) = 1 THEN parts[1]
    ELSE LET h == Len(parts) \div 2
         IN  Join(sep, SubSeq(parts, 1, h)) \o sep
             \o Join(sep, SubSeq(parts, h + 1, Len(parts)))

RECURSIVE LStrip(_)
LStrip(s) == IF s # << >> /\ IsSpace(Head(s)) THEN LStrip(Tail(s)) ELSE s

RECURSIVE RStrip(_)
RStrip(s) ==
    IF s # << >> /\ IsSpace(s[Len(s)]) THEN RStrip(SubSeq(s, 1, Len(s) - 1)) ELSE s

\* s.strip()
Strip(s) == LStrip(RStrip(s))

Indices(s) == [i \in 1..Len(s) |-> i]

\* the last index of the run of non-whitespace tokens that holds index i
RECURSIVE WordEnd(_, _)
WordEnd(s, i) == IF i < Len(s) /\ ~IsSpace(s[i + 1]) THEN WordEnd(s, i + 1) ELSE i

\* s.split(): the maximal runs of non-whitespace tokens, each run one word
Split(s) ==
    LET starts == SelectSeq(Indices(s),
                            LAMBDA i : ~IsSpace(s[i]) /\ (i = 1 \/ IsSpace(s[i - 1])))
    IN  [k \in 1..Len(starts) |-> SubSeq(s, starts[k], WordEnd(s, starts[k]))]

\* s[a:b] with Python's treatment of negative and out-of-range indices
SliceIndex(i, n) == IF i < 0 THEN Max(i + n, 0) ELSE Min(i, n)

Slice(s, a, b) == SubSeq(s, SliceIndex(a, Len(s)) + 1, SliceIndex(b, Len(s)))

Digit(d) == <<"0", "1", "2", "3", "4", "5", "6", "7", "8", "9">>[d + 1]

\* str(n) for n >= 0
RECURSIVE Decimal(_)
Decimal(n) == IF n < 10 THEN <<Digit(n)>> ELSE Decimal(n \div 10) \o <<Digit(n % 10)>>

RECURSIVE ZeroPad(_, _)
ZeroPad(s, width) == IF Len(s) >= width THEN s ELSE ZeroPad(<<"0">> \o s, width)

\* f"{n:04d}"
Format04d(n) == ZeroPad(Decimal(n), 4)

\* f"{n:03d}"
Format03d(n) == ZeroPad(Decimal(n), 3)

SeqsUpTo(S, n) == UNION {[1..k -> S] : k \in 0..n}

Range(s) == {s[i] : i \in DOMAIN s}

-----------------------------------------------------------------------------
(* DuFuRAGProcessor: tools/data_collection/du_fu/process_for_rag.py *)

PoemIds == {<<"1">>, <<"2">>}

AllusionLists == {<< >>, <<[text |-> << >>]>>, <<[text |-> <<"jing", "ke">>]>>}

\* One raw poem of dufu_poems_full.json.  rich chooses between a record whose
\* optional fields (title, lines, attributes, one text annotation) are all
\* present and one where they are all empty.
Poem(id, rich, allusions) ==
    [poem_id          |-> id,
     title            |-> IF rich THEN <<"chun", "wang">> ELSE << >>,
     lines            |-> IF rich THEN << <<"guo", "po">>, <<"cheng", "chun">> >> ELSE << >>,
     creation_date    |-> IF rich THEN <<"757">> ELSE << >>,
     place_code       |-> IF rich THEN <<"CA">> ELSE << >>,
     poem_type        |-> IF rich THEN <<"wulv">> ELSE << >>,
     poem_type_detail |-> << >>,
     rhyme_category   |-> IF rich THEN <<"qin">> ELSE << >>,
     allusions        |-> allusions,
     text_annotations |-> IF rich THEN <<[content |-> <<"zhu">>]>> ELSE << >>]

PoemSet == {Poem(id, rich, al) : id \in PoemIds, rich \in BOOLEAN, al \in AllusionLists}

\* n text annotations "zhu 1" .. "zhu n"; blank empties the content of the first
AnnotationList(n, blank) ==
    [j \in 1..n |->
        [content |-> IF blank /\ j = 1 THEN << >> ELSE <<"zhu", " ">> \o Decimal(j)]]

AnnotationCounts ==
    {0, 1, FullTextAnnotations + 1, ChunkAnnotations, ChunkAnnotations + 1}

\* A raw poem with a title, 4 lines, 2 non-empty allusions and n text annotations
AnnotatedPoem(id, n, blank) ==
    [poem_id          |-> id,
     title            |-> <<"chun", "wang">>,
     lines            |-> << <<"guo", "po">>, <<"cheng", "chun">>,
                             <<"gan", "shi">>, <<"hen", "bie">> >>,
     creation_date    |-> <<"757">>,
     place_code       |-> <<"CA">>,
     poem_type        |-> <<"wulv">>,
     poem_type_detail |-> << >>,
     rhyme_category   |-> <<"qin">>,
     allusions        |-> <<[text |-> <<"jing", "ke">>], [text |-> <<"su", "wu">>]>>,
     text_annotations |-> AnnotationList(n, blank)]

AnnotatedPoemSet ==
    {AnnotatedPoem(id, n, blank) : id \in PoemIds, n \in AnnotationCounts, blank \in BOOLEAN}

\* for allusion in poem['allusions']: if allusion['text']: append(prefix + text)
RECURSIVE BulletLines(_, _, _)
BulletLines(prefix, entries, field) ==
    IF entries = << >> THEN << >>
    ELSE (IF Truthy(Head(entries)[field])
          THEN <<prefix \o Head(entries)[field]>> ELSE << >>)
         \o BulletLines(prefix, Tail(entries), field)

RECURSIVE SumLen(_)
SumLen(ls) == IF ls = << >> THEN 0 ELSE Len(Head(ls)) + SumLen(Tail(ls))

\* lines 90-143: the labelled blocks of full_text, in order
FullTextParts(poem) ==
    LET creation_info ==
            (IF Truthy(poem.creation_date)
             THEN << <<"Date: ">> \o poem.creation_date >> ELSE << >>)
            \o (IF Truthy(poem.place_code)
                THEN << <<"Place: ">> \o poem.place_code >> ELSE << >>)
        lit_info ==
            (IF Truthy(poem.poem_type)
             THEN << <<"Type: ">> \o poem.poem_type >> ELSE << >>)
            \o (IF Truthy(poem.rhyme_category)
                THEN << <<"Rhyme: ">> \o poem.rhyme_category >> ELSE << >>)
        n == Len(poem.text_annotations)
    IN  (IF Truthy(poem.title)
         THEN << <<"Title: ">> \o poem.title, << >> >> ELSE << >>)
        \o (IF Truthy(poem.lines)
            THEN << <<"Poem:">> >> \o poem.lines \o << << >> >> ELSE << >>)
        \o (IF Truthy(creation_info)
            THEN << <<"Creation Information:">> >> \o creation_info \o << << >> >>
            ELSE << >>)
        \o (IF Truthy(lit_info)
            THEN << <<"Literary Characteristics:">> >> \o lit_info \o << << >> >>
            ELSE << >>)
        \o (IF Truthy(poem.allusions)
            THEN << <<"Allusions:">> >>
                 \o BulletLines(<<"  - ">>, poem.allusions, "text")
                 \o << << >> >>
            ELSE << >>)
        \o (IF Truthy(poem.text_annotations)
            THEN << <<"Annotations:">> >>
                 \o BulletLines(<<"  - ">>,
                                Slice(poem.text_annotations, 0, FullTextAnnotations),
                                "content")
                 \o (IF n > FullTextAnnotations
                     THEN << <<"  ... and ">> \o Decimal(n - FullTextAnnotations)
                             \o <<" more">> >>
                     ELSE << >>)
                 \o << << >> >>
            ELSE << >>)

Unknown == <<"Unknown">>

\* an id that embeds the time of the run
DuFuDocIdStamped(poem_id) == <<"dufu_">> \o poem_id \o <<"_">> \o Decimal(clock)

\* f"dufu_{poem['poem_id']}"
DuFuDocId(poem_id) == <<"dufu_">> \o poem_id

\* lines 149-182: the structured document of one poem
StructuredDocument(poem, now) ==
    [id       |-> DuFuDocId(poem.poem_id),
     type     |-> <<"poem">>,
     title    |-> Or(poem.title, <<"Untitled">>),
     source   |-> [poem_id   |-> poem.poem_id,
                   processed |-> Decimal(now)],
     content  |-> [full_text  |-> Join(<<"\n">>, FullTextParts(poem)),
                   poem_lines |-> poem.lines,
                   line_count |-> Len(poem.lines),
                   char_count |-> SumLen(poem.lines)],
     metadata |-> [persona          |-> <<"Du Fu">>,
                   time_period      |-> Or(poem.creation_date, Unknown),
                   place            |-> Or(poem.place_code, Unknown),
                   poem_type        |-> Or(poem.poem_type, Unknown),
                   poem_type_detail |-> Or(poem.poem_type_detail, Unknown),
                   rhyme_category   |-> Or(poem.rhyme_category, Unknown),
                   has_allusions    |-> Len(poem.allusions) > 0,
                   allusion_count   |-> Len(poem.allusions),
                   has_annotations  |-> Len(poem.text_annotations) > 0,
                   annotation_count |-> Len(poem.text_annotations),
                   language         |-> <<"Classical Chinese">>]]

\* lines 88-184: one document per poem, appended in the order of self.poems;
\* datetime.now() is read once per poem, the first time at now
RECURSIVE MapPoems(_, _)
MapPoems(ps, now) ==
    IF ps = << >> THEN << >>
    ELSE <<StructuredDocument(Head(ps), now)>> \o MapPoems(Tail(ps), now + 1)

\* f"dufu_chunk_{chunk_id:04d}"
DuFuChunkId(n) == <<"dufu_chunk_">> \o Format04d(n)

\* line 237: next((p for p in self.poems if p['poem_id'] == ...), None)
RECURSIVE FindPoem(_, _)
FindPoem(ps, poem_id) ==
    IF ps = << >> THEN NoValue
    ELSE IF Head(ps).poem_id = poem_id THEN Head(ps)
    ELSE FindPoem(Tail(ps), poem_id)

\* lines 197-232: the poem_content chunk
PoemContentChunk(doc, n) ==
    LET chunk_parts ==
            (IF Truthy(doc.title) THEN << <<"Poem Title: ">> \o doc.title >> ELSE << >>)
            \o (IF Truthy(doc.content.poem_lines)
                THEN << <<"\n", "Poem Text:">> >> \o doc.content.poem_lines ELSE << >>)
            \o (IF doc.metadata.time_period # Unknown
                THEN << <<"\n", "Creation Date: ">> \o doc.metadata.time_period >>
                ELSE << >>)
            \o (IF doc.metadata.place # Unknown
                THEN << <<"Location: ">> \o doc.metadata.place >> ELSE << >>)
            \o (IF doc.metadata.poem_type # Unknown
                THEN << <<"Poem Type: ">> \o doc.metadata.poem_type >> ELSE << >>)
    IN  [chunk_id           |-> DuFuChunkId(n),
         source_document_id |-> doc.id,
         chunk_type         |-> "poem_content",
         content            |-> Join(<<"\n">>, chunk_parts)]

\* line 239: whether the allusions_context chunk is emitted
EmitsAllusionChunk(poem) ==
    Truthy(poem) /\ Truthy(poem.allusions) /\ Len(poem.allusions) > 0

\* lines 240-263: the allusions_context chunk
AllusionChunk(doc, poem, n) ==
    LET allusion_parts ==
            << <<"Poem: ">> \o doc.title, << >>,
               <<"Literary Allusions and References:">> >>
            \o BulletLines(<<"  ">>, poem.allusions, "text")
    IN  [chunk_id           |-> DuFuChunkId(n),
         source_document_id |-> doc.id,
         chunk_type         |-> "allusions_context",
         content            |-> Join(<<"\n">>, allusion_parts)]

\* line 267: whether the annotations_context chunk is emitted
EmitsAnnotationChunk(poem) ==
    Truthy(poem) /\ Truthy(poem.text_annotations) /\ Len(poem.text_annotations) > 0

\* the annotations_context chunk cut at the full_text limit of 5
AnnotationChunkTruncatingAtFive(doc, poem, n) ==
    LET k == Len(poem.text_annotations)
        ann_parts ==
            << <<"Poem: ">> \o doc.title, << >>, <<"Scholarly Annotations:">> >>
            \o BulletLines(<<"  ">>, Slice(poem.text_annotations, 0, FullTextAnnotations),
                           "content")
            \o (IF k > FullTextAnnotations
                THEN << <<"\n", "... and ">> \o Decimal(k - FullTextAnnotations)
                        \o <<" more annotations">> >>
                ELSE << >>)
    IN  [chunk_id           |-> DuFuChunkId(n),
         source_document_id |-> doc.id,
         chunk_type         |-> "annotations_context",
         content            |-> Join(<<"\n">>, ann_parts)]

\* lines 268-294: the annotations_context chunk
AnnotationChunk(doc, poem, n) ==
    LET k == Len(poem.text_annotations)
        ann_parts ==
            << <<"Poem: ">> \o doc.title, << >>, <<"Scholarly Annotations:">> >>
            \o BulletLines(<<"  ">>, Slice(poem.text_annotations, 0, ChunkAnnotations),
                           "content")
            \o (IF k > ChunkAnnotations
                THEN << <<"\n", "... and ">> \o Decimal(k - ChunkAnnotations)
                        \o <<" more annotations">> >>
                ELSE << >>)
    IN  [chunk_id           |-> DuFuChunkId(n),
         source_document_id |-> doc.id,
         chunk_type         |-> "annotations_context",
         content            |-> Join(<<"\n">>, ann_parts)]

\* a variant that emits the annotation chunk before the allusion chunk
DocChunksAnnotationsFirst(doc, ps, n) ==
    LET poem == FindPoem(ps, doc.source.poem_id)
        c1 == <<PoemContentChunk(doc, n)>>
        c3 == IF EmitsAnnotationChunk(poem)
              THEN <<AnnotationChunk(doc, poem, n + 1)>> ELSE << >>
        c2 == IF EmitsAllusionChunk(poem)
              THEN <<AllusionChunk(doc, poem, n + 1 + Len(c3))>> ELSE << >>
    IN  c1 \o c3 \o c2

\* lines 193-295: one iteration of the loop over self.structured_documents,
\* with chunk_id = n on entry
DocChunks(doc, ps, n) ==
    LET poem == FindPoem(ps, doc.source.poem_id)
        c1 == <<PoemContentChunk(doc, n)>>
        c2 == IF EmitsAllusionChunk(poem)
              THEN <<AllusionChunk(doc, poem, n + 1)>> ELSE << >>
        c3 == IF EmitsAnnotationChunk(poem)
              THEN <<AnnotationChunk(doc, poem, n + 1 + Len(c2))>> ELSE << >>
    IN  c1 \o c2 \o c3

\* lines 191-295: the whole loop, chunk_id starting at n
RECURSIVE GenerateChunks(_, _, _)
GenerateChunks(docs, ps, n) ==
    IF docs = << >> THEN << >>
    ELSE LET cs == DocChunks(Head(docs), ps, n)
         IN  cs \o GenerateChunks(Tail(docs), ps, n + Len(cs))

-----------------------------------------------------------------------------
(* ElonMuskDataProcessor: tools/data_collection/elon_musk/process_for_rag.py *)

\* a str of n characters
Chars(n) == [i \in 1..n |-> "s"]

MuskContents == {<< >>, <<" ">>, <<"a">>}

MuskSummaries == {<< >>, Chars(SummaryMin), Chars(SummaryMin + 1)}

\* one article of biography.json / related_articles.json / supplementary_materials.json
MuskRawSet ==
    {[title |-> <<"T">>, content |-> c, summary |-> s] :
        c \in MuskContents, s \in MuskSummaries}

MuskSuppSet == {[title |-> <<"S">>, content |-> <<"a">>, summary |-> << >>]}

\* lines 82-94, 111-123, 140-153: the document of one raw article
MuskDocument(id, type, article) ==
    [id      |-> id,
     title   |-> Get(article, "title", << >>),
     type    |-> type,
     content |-> Get(article, "content", << >>),
     summary |-> Get(article, "summary", << >>)]

\* lines 110-126 and 139-156: for i, article in enumerate(articles, 1)
RECURSIVE MuskEnumerate(_, _, _, _)
MuskEnumerate(prefix, type, articles, i) ==
    IF articles = << >> THEN << >>
    ELSE <<MuskDocument(prefix \o Format03d(i), type, Head(articles))>>
         \o MuskEnumerate(prefix, type, Tail(articles), i + 1)

\* lines 49-57: the documents one call of process_all appends
MuskLoadDocuments(r) ==
    (IF r.biography = << >> THEN << >>
     ELSE <<MuskDocument(<<"musk_bio_001">>, <<"biography">>, r.biography[1])>>)
    \o MuskEnumerate(<<"musk_related_">>, <<"context">>, r.articles, 1)
    \o MuskEnumerate(<<"musk_supp_">>, <<"supplementary">>, r.supplementary, 1)

\* f"musk_chunk_{chunk_id:04d}"
MuskChunkId(n) == <<"musk_chunk_">> \o Format04d(n)

\* line 185: if doc.get('summary') and len(doc['summary']) > 100
EmitsSummaryChunk(doc) ==
    Truthy(Get(doc, "summary", NoValue)) /\ Len(doc.summary) > SummaryMin

\* lines 164-202: one iteration of the loop over self.documents
MuskDocChunks(doc, n) ==
    <<[id                 |-> MuskChunkId(n),
       source_document_id |-> doc.id,
       type               |-> <<"full_article">>,
       content            |-> doc.content]>>
    \o (IF EmitsSummaryChunk(doc)
        THEN <<[id                 |-> MuskChunkId(n + 1),
                source_document_id |-> doc.id,
                type               |-> <<"summary">>,
                content            |-> doc.summary]>>
        ELSE << >>)

\* lines 160-202: the whole loop, chunk_id starting at n
RECURSIVE MuskGenerateChunks(_, _)
MuskGenerateChunks(docs, n) ==
    IF docs = << >> THEN << >>
    ELSE LET cs == MuskDocChunks(Head(docs), n)
         IN  cs \o MuskGenerateChunks(Tail(docs), n + Len(cs))

-----------------------------------------------------------------------------
(* QueenElizabethDataProcessor: tools/data_processing/queen_elizabeth_ii/process_data.py *)

\* the text of n words "1" .. "n", single-spaced
TextOf(n) ==
    [i \in 1..(IF n = 0 THEN 0 ELSE 2 * n - 1) |->
        IF i % 2 = 1 THEN ToString((i + 1) \div 2) ELSE " "]

QETitles ==
    {<<"Q", " ", "E">>, <<"q", " ", "e">>, <<"Q", "_", "E", "!">>, <<"E">>}

QETexts == {<< >>, <<" ", "1", " ", " ", "2">>, TextOf(ChunkSize + 1)}

\* one article of biography.json / related_articles.json
QERawSet == {[title |-> t, content |-> c] : t \in QETitles, c \in QETexts}

\* re.sub(r'\s+', ' ', content): each run of whitespace becomes one space
CollapseSpaces(s) ==
    LET kept == SelectSeq(Indices(s),
                          LAMBDA i : ~IsSpace(s[i]) \/ i = 1 \/ ~IsSpace(s[i - 1]))
    IN  [k \in 1..Len(kept) |-> IF IsSpace(s[kept[k]]) THEN " " ELSE s[kept[k]]]

\* lines 120-137: _clean_text, on texts without citation markers or headers
CleanText(article) ==
    [article EXCEPT !.content = Strip(CollapseSpaces(Get(article, "content", << >>)))]

\* str.lower() on the title alphabet
Lower(c) == CASE c = "Q" -> "q" [] c = "E" -> "e" [] OTHER -> c

\* the class [\w\s-] on the title alphabet
KeptInId(c) == c \in {"q", "e", "_", "-", "0", "1", "2"} \/ IsSpace(c)

\* re.sub(r'[\s_]+', '_', doc_id)
RECURSIVE CollapseToUnderscore(_)
CollapseToUnderscore(s) ==
    IF s = << >> THEN << >>
    ELSE IF IsSpace(Head(s)) \/ Head(s) = "_"
         THEN IF Len(s) > 1 /\ (IsSpace(s[2]) \/ s[2] = "_")
              THEN CollapseToUnderscore(Tail(s))
              ELSE <<"_">> \o CollapseToUnderscore(Tail(s))
         ELSE <<Head(s)>> \o CollapseToUnderscore(Tail(s))

\* lines 191-195: _generate_doc_id
GenerateDocId(article) ==
    LET title == Get(article, "title", <<"unknown">>)
        lowered == [i \in DOMAIN title |-> Lower(title[i])]
    IN  <<"qe2_">> \o CollapseToUnderscore(SelectSeq(lowered, KeptInId))

\* lines 153-176: _structure_document
StructureDocument(article, doc_type) ==
    [id       |-> GenerateDocId(article),
     type     |-> doc_type,
     title    |-> Get(article, "title", <<"Unknown">>),
     content  |-> [full_text  |-> Get(article, "content", << >>),
                   word_count |-> Len(Split(Get(article, "content", << >>)))],
     metadata |-> [persona |-> <<"Queen Elizabeth II">>]]

RECURSIVE StructureAll(_)
StructureAll(articles) ==
    IF articles = << >> THEN << >>
    ELSE <<StructureDocument(CleanText(Head(articles)), <<"related_article">>)>>
         \o StructureAll(Tail(articles))

\* lines 56-69: [biography_structured] + articles_structured
QELoadDocuments(r) ==
    <<StructureDocument(CleanText(r.biography), <<"biography">>)>>
    \o StructureAll(r.articles)

\* a stride that forgets the overlap
StrideIgnoringOverlap(size, ov) == size

\* line 332: start += (chunk_size - overlap)
Stride(size, ov) == size - ov

\* a window end that is one word short
WindowEndOneShort(st, size, n) == Min(st + size - 1, n)

\* line 316: end = min(start + chunk_size, len(words))
WindowEnd(st, size, n) == Min(st + size, n)

\* f"{document['id']}_chunk_{chunk_id}"
QEChunkId(doc, k) == doc.id \o <<"_chunk_">> \o Decimal(k)

\* a chunk that names its document by title instead of by id
WindowChunkByTitle(doc, k, ws) ==
    LET chunk_text == Join(<<" ">>, ws)
    IN  [chunk_id       |-> QEChunkId(doc, k),
         document_id    |-> doc.title,
         document_title |-> doc.title,
         chunk_index    |-> k,
         content        |-> chunk_text,
         word_count     |-> Len(Split(chunk_text)),
         metadata       |-> doc.metadata]

\* lines 317-328: the chunk of one window
WindowChunk(doc, k, ws) ==
    LET chunk_text == Join(<<" ">>, ws)
    IN  [chunk_id       |-> QEChunkId(doc, k),
         document_id    |-> doc.id,
         document_title |-> doc.title,
         chunk_index    |-> k,
         content        |-> chunk_text,
         word_count     |-> Len(Split(chunk_text)),
         metadata       |-> doc.metadata]

-----------------------------------------------------------------------------
(* DatasetValidator: tools/validation/validate_dataset.py *)

RequiredFiles ==
    {"structured_documents.json", "training_chunks.json", "dataset_metadata.json"}

\* open(path, 'w') ... json.dump(content, f)
WriteFile(fs, name, content) ==
    [n \in DOMAIN fs \cup {name} |-> IF n = name THEN content ELSE fs[n]]

Entry(kind, ref) == [kind |-> kind, ref |-> ref]

\* lines 84-100: _check_required_files
MissingFileIssues(fs) ==
    (IF "structured_documents.json" \in DOMAIN fs THEN << >>
     ELSE <<Entry("Required file missing", <<"structured_documents.json">>)>>)
    \o (IF "training_chunks.json" \in DOMAIN fs THEN << >>
        ELSE <<Entry("Required file missing", <<"training_chunks.json">>)>>)
    \o (IF "dataset_metadata.json" \in DOMAIN fs THEN << >>
        ELSE <<Entry("Required file missing", <<"dataset_metadata.json">>)>>)

\* lines 129-131: for field in required_fields: if field not in doc
MissingFieldIssues(doc, i) ==
    LET miss(field) ==
            IF field \in DOMAIN doc THEN << >>
            ELSE <<Entry("Document missing field", Decimal(i) \o <<":", field>>)>>
    IN  miss("id") \o miss("title") \o miss("type") \o miss("content")

\* lines 127-138: the issues of the loop over self.documents, document i first
RECURSIVE DocumentIssues(_, _, _)
DocumentIssues(docs, i, doc_ids) ==
    IF docs = << >> THEN << >>
    ELSE LET doc == Head(docs)
             doc_id == Get(doc, "id", NoValue)
         IN  MissingFieldIssues(doc, i)
             \o (IF Truthy(doc_id) /\ doc_id \in doc_ids
                 THEN <<Entry("Duplicate document ID", doc_id)>> ELSE << >>)
             \o DocumentIssues(Tail(docs), i + 1,
                               IF Truthy(doc_id) THEN doc_ids \cup {doc_id} ELSE doc_ids)

\* lines 140-142: if not doc.get('content'): warning
RECURSIVE DocumentWarnings(_)
DocumentWarnings(docs) ==
    IF docs = << >> THEN << >>
    ELSE (IF ~Truthy(Get(Head(docs), "content", NoValue))
          THEN <<Entry("Document has empty content", Get(Head(docs), "id", NoValue))>>
          ELSE << >>)
         \o DocumentWarnings(Tail(docs))

\* line 176: chunk.get('id') or chunk.get('chunk_id')
ChunkIdOf(chunk) == Or(Get(chunk, "id", NoValue), Get(chunk, "chunk_id", NoValue))

\* line 185: chunk.get('source_document_id') or chunk.get('document_id')
SourceIdOf(chunk) ==
    Or(Get(chunk, "source_document_id", NoValue), Get(chunk, "document_id", NoValue))

\* lines 174-187: the issues of the loop over self.chunks, chunk i first
RECURSIVE ChunkIssues(_, _, _)
ChunkIssues(cs, i, chunk_ids) ==
    IF cs = << >> THEN << >>
    ELSE LET cid == ChunkIdOf(Head(cs))
         IN  (IF ~Truthy(cid)
              THEN <<Entry("Chunk missing ID field", Decimal(i))>>
              ELSE IF cid \in chunk_ids
                   THEN <<Entry("Duplicate chunk ID", cid)>> ELSE << >>)
             \o (IF ~Truthy(SourceIdOf(Head(cs)))
                 THEN <<Entry("Chunk missing source document field", Decimal(i))>>
                 ELSE << >>)
             \o ChunkIssues(Tail(cs), i + 1,
                            IF Truthy(cid) THEN chunk_ids \cup {cid} ELSE chunk_ids)

\* lines 189-191: if not chunk.get('content'): warning
RECURSIVE ChunkWarnings(_)
ChunkWarnings(cs) ==
    IF cs = << >> THEN << >>
    ELSE (IF ~Truthy(Get(Head(cs), "content", NoValue))
          THEN <<Entry("Chunk has empty content", ChunkIdOf(Head(cs)))>>
          ELSE << >>)
         \o ChunkWarnings(Tail(cs))

\* _cross_validate reading only the document_id key of a chunk
CrossWarningsByDocumentIdOnly(docs, cs) ==
    LET doc_ids == {docs[i].id : i \in DOMAIN docs}
        source(c) == Get(c, "document_id", NoValue)
        orphan_chunks ==
            SelectSeq(cs, LAMBDA c : Truthy(source(c)) /\ source(c) \notin doc_ids)
    IN  IF orphan_chunks # << >>
        THEN <<Entry("chunks reference non-existent documents",
                     Decimal(Len(orphan_chunks)))>>
        ELSE << >>

\* lines 200-211: _cross_validate
CrossWarnings(docs, cs) ==
    LET doc_ids == {docs[i].id : i \in DOMAIN docs}
        orphan_chunks ==
            SelectSeq(cs, LAMBDA c : Truthy(SourceIdOf(c)) /\ SourceIdOf(c) \notin doc_ids)
    IN  IF orphan_chunks # << >>
        THEN <<Entry("chunks reference non-existent documents",
                     Decimal(Len(orphan_chunks)))>>
        ELSE << >>

\* Counter(rec.get(field, default) for rec in records)
CountBy(records, field, default) ==
    LET value(i) == Get(records[i], field, default)
    IN  [v \in {value(i) : i \in DOMAIN records} |->
            Cardinality({i \in DOMAIN records : value(i) = v})]

\* lines 215-275: _generate_statistics, its counts and type distributions (the
\* word, character and token totals are estimates over optional fields)
GenerateStatistics(docs, cs) ==
    [total_documents |-> Len(docs),
     total_chunks    |-> Len(cs),
     document_types  |-> CountBy(docs, "type", <<"unknown">>),
     categories      |-> CountBy(docs, "category", <<"general">>),
     chunk_types     |-> CountBy(cs, "type", <<"unknown">>)]

\* lines 279-291: the report _save_report writes
Report(iss, warns, st) ==
    [status     |-> IF Len(iss) = 0 THEN "passed" ELSE "failed",
     statistics |-> st,
     issues     |-> iss,
     warnings   |-> warns,
     summary    |-> [total_issues      |-> Len(iss),
                     total_warnings    |-> Len(warns),
                     validation_passed |-> Len(iss) = 0]]

\* a report written over the metadata file
ReportOverMetadataFile == "dataset_metadata.json"

\* line 293: the file _save_report writes
ReportFile == "validation_report.json"

\* validate() with the result also depending on the warnings
ValidateRunFailingOnWarnings(fs) ==
    LET i1 == MissingFileIssues(fs)
        docs == fs["structured_documents.json"]
        cs == fs["training_chunks.json"]
        i2 == i1 \o (IF docs = << >>
                     THEN <<Entry("structured_documents.json is empty", << >>)>>
                     ELSE DocumentIssues(docs, 0, {}))
        w2 == IF docs = << >> THEN << >> ELSE DocumentWarnings(docs)
        i3 == i2 \o (IF cs = << >>
                     THEN <<Entry("training_chunks.json is empty", << >>)>>
                     ELSE ChunkIssues(cs, 0, {}))
        w3 == w2 \o (IF cs = << >> THEN << >> ELSE ChunkWarnings(cs))
        w4 == w3 \o CrossWarnings(docs, cs)
    IN  IF i1 # << >>
        THEN [stage |-> "files", issues |-> i1, warnings |-> << >>, result |-> FALSE,
              documents |-> << >>, chunks |-> << >>, stats |-> << >>]
        ELSE IF i2 # << >>
        THEN [stage |-> "documents", issues |-> i2, warnings |-> w2, result |-> FALSE,
              documents |-> docs, chunks |-> << >>, stats |-> << >>]
        ELSE IF i3 # << >>
        THEN [stage |-> "chunks", issues |-> i3, warnings |-> w3, result |-> FALSE,
              documents |-> docs, chunks |-> cs, stats |-> << >>]
        ELSE [stage |-> "report", issues |-> i3, warnings |-> w4,
              result |-> Len(i3) = 0 /\ Len(w4) = 0,
              documents |-> docs, chunks |-> cs, stats |-> GenerateStatistics(docs, cs)]

\* lines 37-80: validate() of a fresh DatasetValidator over the directory fs;
\* stage is the step at which validate returned
ValidateRun(fs) ==
    LET i1 == MissingFileIssues(fs)
        docs == fs["structured_documents.json"]
        cs == fs["training_chunks.json"]
        i2 == i1 \o (IF docs = << >>
                     THEN <<Entry("structured_documents.json is empty", << >>)>>
                     ELSE DocumentIssues(docs, 0, {}))
        w2 == IF docs = << >> THEN << >> ELSE DocumentWarnings(docs)
        i3 == i2 \o (IF cs = << >>
                     THEN <<Entry("training_chunks.json is empty", << >>)>>
                     ELSE ChunkIssues(cs, 0, {}))
        w3 == w2 \o (IF cs = << >> THEN << >> ELSE ChunkWarnings(cs))
        w4 == w3 \o CrossWarnings(docs, cs)
    IN  IF i1 # << >>
        THEN [stage |-> "files", issues |-> i1, warnings |-> << >>, result |-> FALSE,
              documents |-> << >>, chunks |-> << >>, stats |-> << >>]
        ELSE IF i2 # << >>
        THEN [stage |-> "documents", issues |-> i2, warnings |-> w2, result |-> FALSE,
              documents |-> docs, chunks |-> << >>, stats |-> << >>]
        ELSE IF i3 # << >>
        THEN [stage |-> "chunks", issues |-> i3, warnings |-> w3, result |-> FALSE,
              documents |-> docs, chunks |-> cs, stats |-> << >>]
        ELSE [stage |-> "report", issues |-> i3, warnings |-> w4,
              result |-> Len(i3) = 0,
              documents |-> docs, chunks |-> cs, stats |-> GenerateStatistics(docs, cs)]

-----------------------------------------------------------------------------
(* DuFuXMLExtractor: tools/data_collection/du_fu/extract_from_xml.py *)

\* an xml.etree.ElementTree.Element: tag, attrib, text (<< >> is None) and children
Element(tag, attrs, text, children) ==
    [tag |-> tag, attrs |-> attrs, text |-> text, children |-> children]

\* a dict cut down to some of its keys
Restrict(f, keys) == [k \in keys \cap DOMAIN f |-> f[k]]

NoAttrs == Restrict([x |-> << >>], {})

\* Element.findall(tag): the direct children with the tag, in document order
FindAll(elem, tag) == SelectSeq(elem.children, LAMBDA c : c.tag = tag)

\* Element.find(tag): the first such child as a list of one, << >> for None
Find(elem, tag) == SubSeq(FindAll(elem, tag), 1, Min(1, Len(FindAll(elem, tag))))

\* Element.iter(): the element and its descendants in document order
RECURSIVE Descendants(_)
Descendants(elem) ==
    <<elem>> \o Concat([i \in DOMAIN elem.children |-> Descendants(elem.children[i])])

\* Element.iter(tag)
Iter(elem, tag) == SelectSeq(Descendants(elem), LAMBDA e : e.tag = tag)

\* Element.clear(): attributes, text and children are dropped
Clear(elem) == Element(elem.tag, NoAttrs, NoValue, << >>)

\* str.isdigit() for the decimal digits
IsDigit(text) == text # << >> /\ \A i \in DOMAIN text : \E d \in 0..9 : text[i] = Digit(d)

\* int(text) for a string of decimal digits
RECURSIVE ParseInt(_)
ParseInt(text) ==
    LET last == CHOOSE d \in 0..9 : Digit(d) = text[Len(text)]
    IN  IF Len(text) = 1 THEN last ELSE 10 * ParseInt(SubSeq(text, 1, Len(text) - 1)) + last

\* the value the scan compares the AU attribute with (line 77): the poet's
\* name in Chinese characters, one token here
DuFuName == <<"Du Fu">>

\* lines 214-233: _extract_annotations of what find('Ns') returned
ExtractAnnotations(ns_elem) ==
    IF ns_elem # << >>
        THEN LET ns == FindAll(ns_elem[1], "N")
             IN  [i \in DOMAIN ns |->
                     [type |-> Get(ns[i].attrs, "T", << >>),
                      index |-> Get(ns[i].attrs, "I", << >>),
                      content |-> Or(ns[i].text, << >>)]]
        ELSE << >>

\* the keys of the dict of lines 245-251
AnnotationTypes == {"Text", "WordDictInJson", "CharDictInJson", "AllusionKey", "Image"}

TypedAnnotation(n) ==
    [index |-> Get(n.attrs, "I", << >>), content |-> Or(n.text, << >>)]

\* a variant that files an annotation of an unlisted type under 'Text'
ExtractAnnotationsByTypeKeepingUnknown(poem_elem) ==
    [t \in AnnotationTypes |->
        LET ns == SelectSeq(Iter(poem_elem, "N"),
                            LAMBDA n : \/ Get(n.attrs, "T", << >>) = <<t>>
                                       \/ /\ t = "Text"
                                          /\ \A u \in AnnotationTypes :
                                                Get(n.attrs, "T", << >>) # <<u>>)
        IN  [i \in DOMAIN ns |-> TypedAnnotation(ns[i])]]

\* lines 235-262: _extract_annotations_by_type
ExtractAnnotationsByType(poem_elem) ==
    [t \in AnnotationTypes |->
        LET ns == SelectSeq(Iter(poem_elem, "N"),
                            LAMBDA n : Get(n.attrs, "T", << >>) = <<t>>)
        IN  [i \in DOMAIN ns |-> TypedAnnotation(ns[i])]]

\* lines 104-212: _extract_poem_data
ExtractPoemData(poem_elem) ==
    LET a == poem_elem.attrs
        title_elem == Find(poem_elem, "Title")
        jus_elem == Find(poem_elem, "Jus")
        jus == IF jus_elem # << >> THEN FindAll(jus_elem[1], "Ju") ELSE << >>
        as_elem == Find(poem_elem, "As")
        as == IF as_elem # << >> THEN FindAll(as_elem[1], "A") ELSE << >>
        fs_elem == Find(poem_elem, "Fs")
        fs == IF fs_elem # << >> THEN FindAll(fs_elem[1], "F") ELSE << >>
        annotations_by_type == ExtractAnnotationsByType(poem_elem)
        sis_elem == Find(poem_elem, "SIs")
        sis == IF sis_elem # << >> THEN FindAll(sis_elem[1], "SI") ELSE << >>
        Indices_(si) ==
            LET ints == SelectSeq(FindAll(si, "int"),
                                  LAMBDA i : Truthy(i.text) /\ IsDigit(i.text))
            IN  [k \in DOMAIN ints |-> ParseInt(ints[k].text)]
    IN  [poem_id |-> Get(a, "Id", << >>),
         author |-> Get(a, "AU", << >>),
         author_id |-> Get(a, "AId", << >>),
         dynasty |-> Get(a, "D", << >>),
         creation_date |-> Get(a, "AD", << >>),
         group_number |-> Get(a, "G", << >>),
         place_code |-> Get(a, "AP", << >>),
         poem_type |-> Get(a, "T", << >>),
         poem_type_detail |-> Get(a, "TD", << >>),
         rhyme_category |-> Get(a, "R", << >>),
         rhyme_number |-> Get(a, "RA", << >>),
         final_rhyme |-> Get(a, "FR", << >>),
         has_title |-> (Get(a, "TS", << >>) = <<"true">>),
         title |-> IF title_elem # << >> THEN Get(title_elem[1].attrs, "C", << >>)
                   ELSE << >>,
         title_annotations |->
             IF title_elem # << >> THEN ExtractAnnotations(Find(title_elem[1], "Ns"))
             ELSE << >>,
         lines |-> [i \in DOMAIN jus |-> Get(jus[i].attrs, "C", << >>)],
         line_tones |-> [i \in DOMAIN jus |-> Get(jus[i].attrs, "T", << >>)],
         line_rhymes |-> [i \in DOMAIN jus |-> Get(jus[i].attrs, "R", << >>)],
         line_annotations |->
             [i \in DOMAIN jus |-> ExtractAnnotations(Find(jus[i], "Ns"))],
         allusions |->
             [i \in DOMAIN as |->
                 [allusion_id |-> Get(as[i].attrs, "AI", << >>),
                  sentence_index |-> Get(as[i].attrs, "SI", << >>),
                  text |-> Or(as[i].text, << >>)]],
         source_books |->
             LET named == SelectSeq(fs, LAMBDA f : Truthy(f.text))
             IN  [i \in DOMAIN named |-> named[i].text],
         text_annotations |-> annotations_by_type["Text"],
         word_dict_annotations |-> annotations_by_type["WordDictInJson"],
         char_dict_annotations |-> annotations_by_type["CharDictInJson"],
         allusion_key_annotations |-> annotations_by_type["AllusionKey"],
         image_annotations |-> annotations_by_type["Image"],
         sentence_indices |-> [i \in DOMAIN sis |-> Indices_(sis[i])]]

\* a variant of the test of line 77 that recognises the poet by author id
IsDuFuByAuthorId(elem) == Get(elem.attrs, "AId", << >>) = <<"17270">>

\* line 76-77: author = elem.get('AU', ''); author == the poet's name
IsDuFu(elem) == Get(elem.attrs, "AU", << >>) = DuFuName

\* lines 83-84: the author id is taken from a match while the stored one is falsy
AuthorIdAfter(author_id, elem) ==
    IF ~Truthy(author_id) THEN Get(elem.attrs, "AId", << >>) ELSE author_id

\* lines 37-42: self.stats (start_time is only printed)
InitialStats ==
    [total_poems_scanned |-> 0, dufu_poems_found |-> 0, dufu_author_id |-> NoValue]

(* XML files the extractor is run on *)

N(attrs, text) == Element("N", attrs, text, << >>)

Ns(ns) == Element("Ns", NoAttrs, NoValue, ns)

TitleGroup ==
    Element("Title", [C |-> <<"spring", " ", "view">>], NoValue,
            <<Ns(<<N([T |-> <<"Text">>, I |-> <<"0">>], <<"title note">>)>>)>>)

JusGroup ==
    Element("Jus", NoAttrs, NoValue,
            <<Element("Ju", [C |-> <<"line one">>, T |-> <<"ping">>, R |-> <<"a">>],
                      NoValue,
                      <<Ns(<<N([T |-> <<"WordDictInJson">>, I |-> <<"1">>],
                               <<"word note">>),
                             N([T |-> <<"Comment">>, I |-> <<"2">>], <<"remark">>)>>)>>),
              Element("Ju", [C |-> <<"line two">>], NoValue, << >>)>>)

AsGroup ==
    Element("As", NoAttrs, NoValue,
            <<Element("A", [AI |-> <<"7">>, SI |-> <<"0">>], <<"allusion">>, << >>),
              Element("A", NoAttrs, NoValue, << >>)>>)

FsGroup ==
    Element("Fs", NoAttrs, NoValue,
            <<Element("F", NoAttrs, <<"Quan Tang Shi">>, << >>),
              Element("F", NoAttrs, NoValue, << >>)>>)

NsGroup ==
    Ns(<<N([T |-> <<"Text">>, I |-> <<"3">>], <<"text note">>),
         N([T |-> <<"Comment">>, I |-> <<"4">>], <<"remark">>),
         N([I |-> <<"5">>], <<"untyped">>),
         N([T |-> <<"CharDictInJson">>], NoValue),
         N([T |-> <<"AllusionKey">>, I |-> <<"6">>], <<"key">>),
         N([T |-> <<"Image">>, I |-> <<"7">>], <<"picture">>)>>)

SIsGroup ==
    Element("SIs", NoAttrs, NoValue,
            <<Element("SI", NoAttrs, NoValue,
                      <<Element("int", NoAttrs, <<"1">>, << >>),
                        Element("int", NoAttrs, <<"1", "2">>, << >>),
                        Element("int", NoAttrs, <<"x">>, << >>),
                        Element("int", NoAttrs, NoValue, << >>)>>),
              Element("SI", NoAttrs, NoValue, << >>)>>)

ChildGroups == <<TitleGroup, JusGroup, AsGroup, FsGroup, NsGroup, SIsGroup>>

GroupTags == {"Title", "Jus", "As", "Fs", "Ns", "SIs"}

PoemAttributes(id, author, author_id) ==
    [Id |-> id, AU |-> author, AId |-> author_id, D |-> <<"Tang">>,
     AD |-> <<"7", "5", "7">>, G |-> <<"1">>, AP |-> <<"Chang'an">>,
     T |-> <<"shi">>, TD |-> <<"wu lu">>, R |-> <<"qin">>, RA |-> <<"12">>,
     FR |-> <<"xin">>, TS |-> <<"true">>]

AttributeNames == DOMAIN PoemAttributes(<<"1">>, DuFuName, <<"17270">>)

\* a Poem element that carries the attributes named and the child groups tagged
PoemElement(attrs, tags) ==
    Element("Poem", attrs, NoValue, SelectSeq(ChildGroups, LAMBDA g : g.tag \in tags))

\* the elements a mixed file is made of: two of the poet's poems with
\* different AId values, one without AId, another poet's poem, and an
\* element that is not a Poem
ScanElementSet ==
    {PoemElement(PoemAttributes(<<"1">>, DuFuName, <<"17270">>), GroupTags),
     PoemElement(Restrict(PoemAttributes(<<"2">>, DuFuName, << >>),
                          AttributeNames \ {"AId"}), {}),
     PoemElement(PoemAttributes(<<"3">>, DuFuName, <<"9">>), {"Title", "Ns"}),
     PoemElement(PoemAttributes(<<"4">>, <<"Li Bai">>, <<"8">>), GroupTags),
     Element("Author", [AU |-> DuFuName, AId |-> <<"17270">>], NoValue, << >>)}

\* one poem of the poet with any subset of the attributes besides AU and
\* with all or none of the child groups, or with all the attributes or
\* none besides AU and any subset of the child groups
SparsePoemSet ==
    {PoemElement(Restrict(PoemAttributes(<<"5">>, DuFuName, <<"17270">>),
                          {"AU"} \cup names), tags) :
        names \in SUBSET (AttributeNames \ {"AU"}), tags \in {{}, GroupTags}}
    \cup
    {PoemElement(Restrict(PoemAttributes(<<"5">>, DuFuName, <<"17270">>),
                          {"AU"} \cup names), tags) :
        names \in {{}, AttributeNames}, tags \in SUBSET GroupTags}

XmlFiles == SeqsUpTo(ScanElementSet, MaxElements) \cup {<<e>> : e \in SparsePoemSet}

-----------------------------------------------------------------------------
(* DuFuDataCollector: tools/data_collection/du_fu/collect_api_data.py *)

\* api_config.py lines 49-50: the defaults of request_config
RetryAttempts == 3
RetryDelay == 2

DefaultRequestConfig == [retry_attempts |-> RetryAttempts, retry_delay |-> RetryDelay]

\* the defaults, or what _load_config read from a configuration file
RequestConfigs ==
    {DefaultRequestConfig}
        \cup [retry_attempts : 0..MaxRetries, retry_delay : 1..MaxDelay]

\* a variant that doubles the wait with every retry
RetryWaitDoubling(config, count) == config.retry_delay * 2 ^ count

\* line 79: delay = request_config["retry_delay"] * (retry_count + 1)
RetryWait(config, count) == config.retry_delay * (count + 1)

\* what response.json() returned, as far as collect_poems looks at it: a
\* list, a dict with the key "items", a dict with the key "data" and not
\* "items", another non-empty dict, or an empty dict; "none" is None
Json(kind, items) == [kind |-> kind, poems |-> items]

None == Json("none", << >>)

ApiPoem(n) == [poem_id |-> Decimal(n)]

PagePoems == {<<ApiPoem(1)>>, <<ApiPoem(1), ApiPoem(2)>>}

Responses ==
    {Json(kind, ps) : kind \in {"list", "items", "data"}, ps \in PagePoems \cup {<< >>}}
        \cup {Json("other", << >>), Json("empty", << >>)}

\* line 113: the truth value of data
DataTruthy(data) ==
    CASE data.kind = "list" -> data.poems # << >>
      [] data.kind \in {"items", "data", "other"} -> TRUE
      [] OTHER -> FALSE

\* lines 113-130: the loop goes on exactly when data is truthy, of a known
\* format and its list of poems is not empty
PageAccepted(data) ==
    /\ DataTruthy(data)
    /\ data.kind \in {"list", "items", "data"}
    /\ data.poems # << >>

\* line 135
PageFileName(page) == "poems_page_" \o ToString(page) \o ".json"

\* lines 139-146 (url and timestamp left out)
PoemsLogEntry(page, items) ==
    [type |-> "poems", page |-> page, count |-> Len(items), file |-> PageFileName(page)]

-----------------------------------------------------------------------------
(* DuFuWikipediaCollector: tools/data_collection/du_fu/collect_wikipedia_supplement_v2.py *)

\* lines 51-122: articles_to_collect
AllArticles ==
    <<[title |-> "Du Fu", category |-> "biography"],
      [title |-> "Tang Dynasty", category |-> "history"],
      [title |-> "An Lushan Rebellion", category |-> "history"],
      [title |-> "Chinese poetry", category |-> "literature"],
      [title |-> "Classical Chinese poetry", category |-> "literature"],
      [title |-> "Tang poetry", category |-> "literature"],
      [title |-> "Li Bai", category |-> "biography"],
      [title |-> "Wang Wei (Tang dynasty)", category |-> "biography"],
      [title |-> "Regulated verse", category |-> "literature"],
      [title |-> "Chengdu", category |-> "geography"],
      [title |-> "Chang'an", category |-> "geography"],
      [title |-> "Confucianism", category |-> "philosophy"],
      [title |-> "Buddhism in China", category |-> "philosophy"],
      [title |-> "Taoism", category |-> "philosophy"]>>

\* the articles of the list the model fetches
ArticlesToCollect == SubSeq(AllArticles, 1, Min(MaxWikiArticles, Len(AllArticles)))

\* how wikipedia.page(title) ends: lines 168, 200, 210, 219
Outcomes == {"success", "disambiguation", "not_found", "error"}

\* lines 173-186: article_data (url, summary, sections and the time left out)
ArticleData(info, n) ==
    [id |-> <<"dufu_wiki_">> \o Decimal(n),
     title |-> info.title,
     original_title |-> info.title,
     category |-> info.category,
     content |-> <<info.title, " ", "article">>,
     word_count |-> 2]

\* lines 191-225: the collection_log entry of one fetch
WikipediaLogEntry(info, outcome) == [title |-> info.title, status |-> outcome]

\* lines 245-255: summary (date, totals of words and characters, categories left out)
CollectionSummary(articles, log) ==
    [total_articles |-> Len(articles),
     successful_collections |-> Len(SelectSeq(log, LAMBDA e : e.status = "success")),
     failed_collections |-> Len(SelectSeq(log, LAMBDA e : e.status # "success")),
     articles_by_title |-> [i \in DOMAIN articles |-> articles[i].title]]

\* lines 229-271: _save_all_data opens the three files with mode 'w'
SaveAllData(fs, articles, log) ==
    WriteFile(WriteFile(WriteFile(fs, "wikipedia_articles.json", articles),
                        "collection_log.json", log),
              "collection_summary.json", CollectionSummary(articles, log))

-----------------------------------------------------------------------------
(* State machine *)

NoDocument == << >>

\* main() has not called sys.exit yet
NoExit == -1

\* no DuFuXMLExtractor has been constructed
ExtractorIdle ==
    /\ xml = << >> /\ scan_pos = 0 /\ extractor_stats = << >>
    /\ dufu_poems = << >> /\ root_children = << >>

\* no DuFuDataCollector or DuFuWikipediaCollector has been constructed
CollectorIdle ==
    /\ request_config = << >> /\ retry_count = 0 /\ requests = 0
    /\ sleeps = << >> /\ response = << >>
    /\ page_no = 0 /\ all_poems = << >> /\ collection_log = << >>
    /\ max_pages = 0 /\ wikipedia_articles = << >> /\ article_index = 0

\* no processor or validator has been constructed
ProcessorIdle ==
    /\ runs = 0
    /\ poems = << >> /\ structured_documents = << >> /\ training_chunks = << >>
    /\ raw = << >> /\ documents = << >> /\ chunks = << >>
    /\ doc_index = 0
    /\ document = NoDocument /\ chunk_size = 0 /\ overlap = 0
    /\ words = << >> /\ start = 0 /\ chunk_id = 0 /\ wchunks = << >>
    /\ issues = << >> /\ warnings = << >> /\ result = FALSE
    /\ stats = << >> /\ loaded_documents = << >> /\ loaded_chunks = << >>
    /\ exit_code = NoExit
    /\ clock = 0

\* DuFuRAGProcessor.__init__ (lines 31-46) over any dufu_poems_full.json
InitDuFu ==
    /\ persona = "dufu" /\ pc = "ready"
    /\ runs = 0
    /\ poems \in SeqsUpTo(PoemSet, MaxPoems)
    /\ structured_documents = << >> /\ training_chunks = << >>
    /\ raw = << >> /\ documents = << >> /\ chunks = << >>
    /\ doc_index = 0
    /\ document = NoDocument /\ chunk_size = 0 /\ overlap = 0
    /\ words = << >> /\ start = 0 /\ chunk_id = 0 /\ wchunks = << >>
    /\ files = << >>
    /\ issues = << >> /\ warnings = << >> /\ result = FALSE
    /\ stats = << >> /\ loaded_documents = << >> /\ loaded_chunks = << >>
    /\ exit_code = NoExit
    /\ clock = 0
    /\ ExtractorIdle /\ CollectorIdle

\* ElonMuskDataProcessor.__init__ (lines 28-34) over any raw_data directory;
\* biography is << >> when biography.json does not exist
InitMusk ==
    /\ persona = "musk" /\ pc = "ready"
    /\ runs = 0
    /\ poems = << >> /\ structured_documents = << >> /\ training_chunks = << >>
    /\ raw \in [biography : SeqsUpTo(MuskRawSet, 1),
                articles : SeqsUpTo(MuskRawSet, MaxArticles),
                supplementary : SeqsUpTo(MuskSuppSet, 1)]
    /\ documents = << >> /\ chunks = << >>
    /\ doc_index = 0
    /\ document = NoDocument /\ chunk_size = 0 /\ overlap = 0
    /\ words = << >> /\ start = 0 /\ chunk_id = 0 /\ wchunks = << >>
    /\ files = << >>
    /\ issues = << >> /\ warnings = << >> /\ result = FALSE
    /\ stats = << >> /\ loaded_documents = << >> /\ loaded_chunks = << >>
    /\ exit_code = NoExit
    /\ clock = 0
    /\ ExtractorIdle /\ CollectorIdle

\* QueenElizabethDataProcessor.__init__ (lines 32-43) over any raw_data directory
InitQE ==
    /\ persona = "qe2" /\ pc = "ready"
    /\ runs = 0
    /\ poems = << >> /\ structured_documents = << >> /\ training_chunks = << >>
    /\ raw \in [biography : QERawSet, articles : SeqsUpTo(QERawSet, MaxArticles)]
    /\ documents = << >> /\ chunks = << >>
    /\ doc_index = 0
    /\ document = NoDocument /\ chunk_size = 0 /\ overlap = 0
    /\ words = << >> /\ start = 0 /\ chunk_id = 0 /\ wchunks = << >>
    /\ files = << >>
    /\ issues = << >> /\ warnings = << >> /\ result = FALSE
    /\ stats = << >> /\ loaded_documents = << >> /\ loaded_chunks = << >>
    /\ exit_code = NoExit
    /\ clock = 0
    /\ ExtractorIdle /\ CollectorIdle

Init == InitDuFu \/ InitMusk \/ InitQE

\* process_for_rag.py lines 83-184: _create_structured_documents
DuFuCreateStructuredDocuments ==
    /\ persona = "dufu" /\ pc = "ready"
    /\ structured_documents' = structured_documents \o MapPoems(poems, clock)
    /\ clock' = clock + Len(poems)
    /\ pc' = "mapped"
    /\ UNCHANGED <<persona, runs, poems, training_chunks, raw, documents, chunks,
                   doc_index, windowVars, files, validatorVars,
                   extractorVars, requestVars, collectorVars>>

\* process_for_rag.py lines 186-295: _generate_training_chunks
DuFuGenerateTrainingChunks ==
    /\ persona = "dufu" /\ pc = "mapped"
    /\ training_chunks' = training_chunks \o GenerateChunks(structured_documents, poems, 1)
    /\ runs' = runs + 1
    /\ pc' = "chunked"
    /\ UNCHANGED <<persona, poems, structured_documents, raw, documents, chunks,
                   doc_index, windowVars, files, validatorVars,
                   clock,
                   extractorVars, requestVars, collectorVars>>

\* process_for_rag.py lines 73-76: the three saves, then _save_processing_report,
\* which divides by len(self.structured_documents) (line 380) before it writes
DuFuSave ==
    /\ persona = "dufu" /\ pc = "chunked"
    /\ LET saved ==
            WriteFile(WriteFile(WriteFile(files,
                "structured_documents.json", structured_documents),
                "training_chunks.json", training_chunks),
                "dataset_metadata.json",
                [total_documents |-> Len(structured_documents),
                 total_chunks |-> Len(training_chunks)])
       IN  IF Len(structured_documents) = 0
           THEN /\ files' = saved
                /\ pc' = "crashed"
           ELSE /\ files' = WriteFile(saved, "processing_report.json",
                                      [total_chunks |-> Len(training_chunks)])
                /\ pc' = "saved"
    /\ UNCHANGED <<persona, runs, dufuVars, raw, documents, chunks, doc_index,
                   windowVars, validatorVars,
                   clock,
                   extractorVars, requestVars, collectorVars>>

\* elon_musk/process_for_rag.py lines 49-57: _process_biography,
\* _process_related_articles, _process_supplementary_materials
MuskProcessSources ==
    /\ persona = "musk" /\ pc = "ready"
    /\ documents' = documents \o MuskLoadDocuments(raw)
    /\ pc' = "mapped"
    /\ UNCHANGED <<persona, runs, dufuVars, raw, chunks, doc_index, windowVars,
                   files, validatorVars,
                   clock,
                   extractorVars, requestVars, collectorVars>>

\* elon_musk/process_for_rag.py lines 158-204: _generate_training_chunks
MuskGenerateTrainingChunks ==
    /\ persona = "musk" /\ pc = "mapped"
    /\ chunks' = chunks \o MuskGenerateChunks(documents, 1)
    /\ runs' = runs + 1
    /\ pc' = "chunked"
    /\ UNCHANGED <<persona, dufuVars, raw, documents, doc_index, windowVars,
                   files, validatorVars,
                   clock,
                   extractorVars, requestVars, collectorVars>>

\* elon_musk/process_for_rag.py lines 206-273: _save_all_data
MuskSave ==
    /\ persona = "musk" /\ pc = "chunked"
    /\ files' = WriteFile(WriteFile(WriteFile(WriteFile(files,
                    "structured_documents.json", documents),
                    "training_chunks.json", chunks),
                    "dataset_metadata.json",
                    [total_documents |-> Len(documents), total_chunks |-> Len(chunks)]),
                    "processing_report.json", [total_chunks |-> Len(chunks)])
    /\ pc' = "saved"
    /\ UNCHANGED <<persona, runs, dufuVars, raw, documents, chunks, doc_index,
                   windowVars, validatorVars,
                   clock,
                   extractorVars, requestVars, collectorVars>>

\* process_all called again on the same DuFuRAGProcessor / ElonMuskDataProcessor
ProcessAgain ==
    /\ persona \in {"dufu", "musk"}
    /\ pc = "saved"
    /\ runs < MaxRuns
    /\ pc' = "ready"
    /\ UNCHANGED <<persona, runs, dufuVars, raw, documents, chunks, doc_index,
                   windowVars, files, validatorVars,
                   clock,
                   extractorVars, requestVars, collectorVars>>

\* process_data.py lines 56-69: _load_raw_data, _clean_text, _structure_document
QEStructure ==
    /\ persona = "qe2" /\ pc = "ready"
    /\ documents' = QELoadDocuments(raw)
    /\ chunks' = << >>
    /\ doc_index' = 1
    /\ pc' = "chunking"
    /\ UNCHANGED <<persona, runs, dufuVars, raw, windowVars, files, validatorVars,
                   clock,
                   extractorVars, requestVars, collectorVars>>

\* process_data.py lines 308-313: entry of _chunk_document(doc, size, ov)
EnterChunkDocument(doc, size, ov) ==
    /\ document' = doc
    /\ chunk_size' = size
    /\ overlap' = ov
    /\ words' = Split(doc.content.full_text)
    /\ wchunks' = << >>
    /\ start' = 0
    /\ chunk_id' = 0
    /\ pc' = "window"

\* process_data.py lines 278-288: _create_chunks calls _chunk_document on the
\* biography and then on each article, with chunk_size 500 and overlap 100
QEChunkNextDocument ==
    /\ persona = "qe2" /\ pc = "chunking"
    /\ doc_index <= Len(documents)
    /\ EnterChunkDocument(documents[doc_index], ChunkSize, Overlap)
    /\ UNCHANGED <<persona, runs, dufuVars, raw, documents, chunks, doc_index,
                   files, validatorVars,
                   clock,
                   extractorVars, requestVars, collectorVars>>

\* process_data.py lines 315-335: one iteration of the while loop
WindowStep ==
    /\ pc = "window"
    /\ start < Len(words)
    /\ chunk_id < MaxIter
    /\ LET end == WindowEnd(start, chunk_size, Len(words))
       IN  wchunks' = Append(wchunks, WindowChunk(document, chunk_id, Slice(words, start, end)))
    /\ chunk_id' = chunk_id + 1
    /\ start' = start + Stride(chunk_size, overlap)
    /\ UNCHANGED <<persona, pc, runs, dufuVars, raw, documents, chunks, doc_index,
                   document, chunk_size, overlap, words, files, validatorVars,
                   clock,
                   extractorVars, requestVars, collectorVars>>

\* process_data.py line 337 and lines 283, 289: return chunks; chunks.extend(...)
QEExtendChunks ==
    /\ persona = "qe2" /\ pc = "window"
    /\ start >= Len(words)
    /\ chunks' = chunks \o wchunks
    /\ doc_index' = doc_index + 1
    /\ pc' = "chunking"
    /\ UNCHANGED <<persona, runs, dufuVars, raw, documents, windowVars, files,
                   validatorVars,
                   clock,
                   extractorVars, requestVars, collectorVars>>

\* process_data.py lines 293-294: _create_chunks returns
QECreateChunksDone ==
    /\ persona = "qe2" /\ pc = "chunking"
    /\ doc_index > Len(documents)
    /\ runs' = runs + 1
    /\ pc' = "chunked"
    /\ UNCHANGED <<persona, dufuVars, raw, documents, chunks, doc_index, windowVars,
                   files, validatorVars,
                   clock,
                   extractorVars, requestVars, collectorVars>>

\* process_data.py lines 339-402: _save_processed_data, which divides by
\* len(chunks) (line 368) before it writes dataset_metadata.json, then
\* _generate_processing_report
QESave ==
    /\ persona = "qe2" /\ pc = "chunked"
    /\ LET saved ==
            WriteFile(WriteFile(files,
                "structured_documents.json", documents),
                "training_chunks.json", chunks)
       IN  IF Len(chunks) = 0
           THEN /\ files' = saved
                /\ pc' = "crashed"
           ELSE /\ files' = WriteFile(WriteFile(saved,
                                "dataset_metadata.json",
                                [documents_count |-> Len(documents),
                                 chunks_count |-> Len(chunks)]),
                                "processing_report.json",
                                [chunks_created |-> Len(chunks)])
                /\ pc' = "saved"
    /\ UNCHANGED <<persona, runs, dufuVars, raw, documents, chunks, doc_index,
                   windowVars, validatorVars,
                   clock,
                   extractorVars, requestVars, collectorVars>>

\* lines 350-353: sys.exit(0 if success else 1)
ExitCode(success) == IF success THEN 0 ELSE 1

\* validate_dataset.py lines 343-353: main() builds a DatasetValidator over the
\* processed directory, calls validate() and exits; the report is written at
\* step 6 of validate()
Validate ==
    /\ pc \in {"saved", "crashed"}
    /\ LET v == ValidateRun(files)
       IN  /\ issues' = v.issues
           /\ warnings' = v.warnings
           /\ result' = v.result
           /\ stats' = v.stats
           /\ loaded_documents' = v.documents
           /\ loaded_chunks' = v.chunks
           /\ exit_code' = ExitCode(v.result)
           /\ files' = IF v.stage = "report"
                       THEN WriteFile(files, ReportFile,
                                      Report(v.issues, v.warnings, v.stats))
                       ELSE files
    /\ pc' = IF pc = "saved" THEN "validated" ELSE "crashed_validated"
    /\ UNCHANGED <<persona, runs, dufuVars, raw, documents, chunks, doc_index,
                   windowVars, clock,
                   extractorVars, requestVars, collectorVars>>

Next ==
    \/ DuFuCreateStructuredDocuments
    \/ DuFuGenerateTrainingChunks
    \/ DuFuSave
    \/ MuskProcessSources
    \/ MuskGenerateTrainingChunks
    \/ MuskSave
    \/ ProcessAgain
    \/ QEStructure
    \/ QEChunkNextDocument
    \/ WindowStep
    \/ QEExtendChunks
    \/ QECreateChunksDone
    \/ QESave
    \/ Validate

Spec == Init /\ [][Next]_vars

-----------------------------------------------------------------------------
(* _chunk_document on its own, for any document and any chunk_size, overlap *)

WindowDocument(n) ==
    StructureDocument([title |-> <<"E">>, content |-> TextOf(n)], <<"biography">>)

InitWindow ==
    /\ persona = "none" /\ pc = "call"
    /\ \/ /\ document \in {WindowDocument(n) : n \in 0..MaxWords}
          /\ chunk_size \in 1..MaxWindow
          /\ overlap \in 0..MaxWindow
       \/ /\ document = WindowDocument(1200)
          /\ chunk_size = ChunkSize
          /\ overlap = Overlap
    /\ runs = 0
    /\ poems = << >> /\ structured_documents = << >> /\ training_chunks = << >>
    /\ raw = << >> /\ documents = << >> /\ chunks = << >>
    /\ doc_index = 0
    /\ words = << >> /\ start = 0 /\ chunk_id = 0 /\ wchunks = << >>
    /\ files = << >>
    /\ issues = << >> /\ warnings = << >> /\ result = FALSE
    /\ stats = << >> /\ loaded_documents = << >> /\ loaded_chunks = << >>
    /\ exit_code = NoExit
    /\ clock = 0
    /\ ExtractorIdle /\ CollectorIdle

\* process_data.py lines 308-313
CallChunkDocument ==
    /\ persona = "none" /\ pc = "call"
    /\ EnterChunkDocument(document, chunk_size, overlap)
    /\ UNCHANGED <<persona, runs, dufuVars, raw, documents, chunks, doc_index,
                   files, validatorVars,
                   clock,
                   extractorVars, requestVars, collectorVars>>

\* process_data.py line 337: return chunks
ReturnChunks ==
    /\ persona = "none" /\ pc = "window"
    /\ start >= Len(words)
    /\ pc' = "returned"
    /\ UNCHANGED <<persona, runs, dufuVars, raw, documents, chunks, doc_index,
                   windowVars, files, validatorVars,
                   clock,
                   extractorVars, requestVars, collectorVars>>

NextWindow == CallChunkDocument \/ WindowStep \/ ReturnChunks

SpecWindow == InitWindow /\ [][NextWindow]_vars

-----------------------------------------------------------------------------
(* DuFuRAGProcessor over poems that carry up to 11 text annotations *)

InitAnnotated ==
    /\ persona = "dufu" /\ pc = "ready"
    /\ runs = 0
    /\ poems \in SeqsUpTo(AnnotatedPoemSet, MaxPoems)
    /\ structured_documents = << >> /\ training_chunks = << >>
    /\ raw = << >> /\ documents = << >> /\ chunks = << >>
    /\ doc_index = 0
    /\ document = NoDocument /\ chunk_size = 0 /\ overlap = 0
    /\ words = << >> /\ start = 0 /\ chunk_id = 0 /\ wchunks = << >>
    /\ files = << >>
    /\ issues = << >> /\ warnings = << >> /\ result = FALSE
    /\ stats = << >> /\ loaded_documents = << >> /\ loaded_chunks = << >>
    /\ exit_code = NoExit
    /\ clock = 0
    /\ ExtractorIdle /\ CollectorIdle

NextDuFu ==
    \/ DuFuCreateStructuredDocuments
    \/ DuFuGenerateTrainingChunks
    \/ DuFuSave
    \/ ProcessAgain
    \/ Validate

SpecAnnotated == InitAnnotated /\ [][NextDuFu]_vars

-----------------------------------------------------------------------------
(* validate_dataset.main over any processed_data directory *)

\* a document record of structured_documents.json
DatasetDocument(id, content) ==
    [id |-> id, title |-> <<"t">>, type |-> <<"article">>, content |-> content]

DatasetDocumentSet ==
    {DatasetDocument(<<"d1">>, <<"x">>),
     DatasetDocument(<<"d2">>, <<"x">>),
     DatasetDocument(<<"d1">>, << >>),
     DatasetDocument(<<"d2">>, <<" ">>),
     [title |-> <<"t">>, type |-> <<"article">>, content |-> <<"x">>]}

\* a chunk record of training_chunks.json, with the keys of the Du Fu chunks
DatasetChunk(id, source, content) ==
    [chunk_id |-> id, source_document_id |-> source, content |-> content]

DatasetChunkSet ==
    {DatasetChunk(<<"c1">>, <<"d1">>, <<"x">>),
     DatasetChunk(<<"c1">>, <<"d3">>, <<"x">>),
     DatasetChunk(<<"c2">>, <<"d3">>, <<" ">>),
     DatasetChunk(<<"c2">>, <<"d1">>, << >>),
     [id |-> <<"c2">>, document_id |-> <<"d2">>, content |-> <<"x">>],
     [content |-> <<"x">>]}

\* a processed_data directory; dataset_metadata.json is there when meta holds
Directory(docs, cs, meta) ==
    LET two == WriteFile(WriteFile(<< >>, "structured_documents.json", docs),
                         "training_chunks.json", cs)
    IN  IF meta
        THEN WriteFile(two, "dataset_metadata.json",
                       [total_documents |-> Len(docs), total_chunks |-> Len(cs)])
        ELSE two

InitValidator ==
    /\ persona = "dataset" /\ pc = "saved"
    /\ runs = 0
    /\ poems = << >> /\ structured_documents = << >> /\ training_chunks = << >>
    /\ raw = << >> /\ documents = << >> /\ chunks = << >>
    /\ doc_index = 0
    /\ document = NoDocument /\ chunk_size = 0 /\ overlap = 0
    /\ words = << >> /\ start = 0 /\ chunk_id = 0 /\ wchunks = << >>
    /\ files \in {Directory(docs, cs, meta) :
                     docs \in SeqsUpTo(DatasetDocumentSet, MaxRecords),
                     cs \in SeqsUpTo(DatasetChunkSet, MaxRecords),
                     meta \in BOOLEAN}
    /\ issues = << >> /\ warnings = << >> /\ result = FALSE
    /\ stats = << >> /\ loaded_documents = << >> /\ loaded_chunks = << >>
    /\ exit_code = NoExit
    /\ clock = 0
    /\ ExtractorIdle /\ CollectorIdle

NextValidator == Validate

SpecValidator == InitValidator /\ [][NextValidator]_vars

-----------------------------------------------------------------------------
(* DuFuXMLExtractor.extract_all_dufu_poems over any XML file *)

\* extract_from_xml.py lines 25-49: __init__, called on any file
InitExtractor ==
    /\ persona = "extractor" /\ pc = "scanning"
    /\ xml \in XmlFiles
    /\ scan_pos = 0
    /\ extractor_stats = InitialStats
    /\ dufu_poems = << >>
    /\ root_children = << >>
    /\ files = << >>
    /\ ProcessorIdle /\ CollectorIdle

\* lines 71-91: the body of the loop for the end event of one top-level
\* element (the end events of its descendants, none of them a Poem, come
\* first and change nothing); iterparse has attached the element to the root
ScanElement ==
    /\ persona = "extractor" /\ pc = "scanning"
    /\ scan_pos < Len(xml)
    /\ LET elem == xml[scan_pos + 1]
           matched == elem.tag = "Poem" /\ IsDuFu(elem)
       IN  /\ dufu_poems' = IF matched THEN Append(dufu_poems, ExtractPoemData(elem))
                            ELSE dufu_poems
           /\ extractor_stats' =
                  [total_poems_scanned |->
                       extractor_stats.total_poems_scanned
                           + (IF elem.tag = "Poem" THEN 1 ELSE 0),
                   dufu_poems_found |->
                       extractor_stats.dufu_poems_found + (IF matched THEN 1 ELSE 0),
                   dufu_author_id |->
                       IF matched
                           THEN AuthorIdAfter(extractor_stats.dufu_author_id, elem)
                           ELSE extractor_stats.dufu_author_id]
           /\ root_children' =
                  Append(root_children, IF elem.tag = "Poem" THEN Clear(elem) ELSE elem)
    /\ scan_pos' = scan_pos + 1
    /\ UNCHANGED <<persona, pc, xml, files, processorVars, requestVars, collectorVars>>

\* lines 93-102: the iterator is exhausted, the poems are returned
ScanDone ==
    /\ persona = "extractor" /\ pc = "scanning"
    /\ scan_pos = Len(xml)
    /\ pc' = "extracted"
    /\ UNCHANGED <<persona, files, processorVars, extractorVars, requestVars,
                   collectorVars>>

NextExtractor == ScanElement \/ ScanDone

SpecExtractor == InitExtractor /\ [][NextExtractor]_vars

-----------------------------------------------------------------------------
(* DuFuDataCollector.collect_poems and DuFuWikipediaCollector.collect_all *)

\* collect_api_data.py lines 28-52 and 100-101: a collector over an empty
\* output directory, collect_poems called with any max_pages
InitCollector ==
    /\ persona = "collector" /\ pc = "loop"
    /\ request_config \in RequestConfigs
    /\ max_pages \in 0..MaxPages
    /\ retry_count = 0 /\ requests = 0 /\ sleeps = << >> /\ response = None
    /\ page_no = 0 /\ all_poems = << >> /\ collection_log = << >>
    /\ wikipedia_articles = << >> /\ article_index = 0
    /\ files = << >>
    /\ ProcessorIdle /\ ExtractorIdle

\* lines 103-111: the head of the loop; _make_request(url) is called with
\* retry_count 0 unless the page limit is reached
StartPage ==
    /\ persona = "collector" /\ pc = "loop"
    /\ IF max_pages # 0 /\ page_no >= max_pages
           THEN /\ pc' = "collected"
                /\ UNCHANGED requestVars
           ELSE /\ pc' = "requesting"
                /\ retry_count' = 0 /\ requests' = 0 /\ sleeps' = << >>
                /\ response' = None
                /\ UNCHANGED request_config
    /\ UNCHANGED <<persona, files, processorVars, extractorVars, collectorVars>>

\* lines 68-85: session.get or raise_for_status raises RequestException;
\* the invocation sleeps and calls itself, or returns None, on which
\* collect_poems leaves the loop (lines 113-115)
RequestFails ==
    /\ persona = "collector" /\ pc = "requesting"
    /\ requests' = requests + 1
    /\ IF retry_count < request_config.retry_attempts
           THEN /\ sleeps' = Append(sleeps, RetryWait(request_config, retry_count))
                /\ retry_count' = retry_count + 1
                /\ UNCHANGED <<pc, response>>
           ELSE /\ response' = None
                /\ pc' = "collected"
                /\ UNCHANGED <<sleeps, retry_count>>
    /\ UNCHANGED <<persona, files, processorVars, extractorVars, request_config,
                   collectorVars>>

\* lines 68-73 and 113-150: the request succeeds, _make_request returns the
\* JSON value and collect_poems stores the page or leaves the loop; the
\* API serves at most MaxPages pages of poems
RequestSucceeds(data) ==
    /\ persona = "collector" /\ pc = "requesting"
    /\ PageAccepted(data) => page_no < MaxPages
    /\ requests' = requests + 1
    /\ response' = data
    /\ IF PageAccepted(data)
           THEN /\ all_poems' = all_poems \o data.poems
                /\ files' = WriteFile(files, PageFileName(page_no), data.poems)
                /\ collection_log' =
                       Append(collection_log, PoemsLogEntry(page_no, data.poems))
                /\ page_no' = page_no + 1
                /\ pc' = "loop"
           ELSE /\ pc' = "collected"
                /\ UNCHANGED <<all_poems, files, collection_log, page_no>>
    /\ UNCHANGED <<persona, processorVars, extractorVars, request_config,
                   retry_count, sleeps, max_pages, wikipedia_articles, article_index>>

\* collect_wikipedia_supplement_v2.py lines 24-38: a collector over an
\* empty output directory
InitWikipedia ==
    /\ persona = "wikipedia" /\ pc = "collecting"
    /\ wikipedia_articles = << >> /\ collection_log = << >>
    /\ article_index = 0
    /\ request_config = << >> /\ retry_count = 0 /\ requests = 0
    /\ sleeps = << >> /\ response = << >>
    /\ page_no = 0 /\ all_poems = << >> /\ max_pages = 0
    /\ files = << >>
    /\ ProcessorIdle /\ ExtractorIdle

\* lines 127-147 and 153-227: one iteration of the loop of collect_all,
\* _collect_article ending in any of its four ways; after the last article
\* _save_all_data writes the three files
CollectArticle(outcome) ==
    /\ persona = "wikipedia" /\ pc = "collecting"
    /\ article_index < Len(ArticlesToCollect)
    /\ LET info == ArticlesToCollect[article_index + 1]
           articles == IF outcome = "success"
                           THEN Append(wikipedia_articles,
                                       ArticleData(info, Len(wikipedia_articles) + 1))
                           ELSE wikipedia_articles
           log == Append(collection_log, WikipediaLogEntry(info, outcome))
       IN  /\ wikipedia_articles' = articles
           /\ collection_log' = log
           /\ article_index' = article_index + 1
           /\ IF article_index + 1 = Len(ArticlesToCollect)
                  THEN /\ files' = SaveAllData(files, articles, log)
                       /\ runs' = runs + 1
                       /\ pc' = "saved"
                  ELSE UNCHANGED <<files, runs, pc>>
    /\ UNCHANGED <<persona, dufuVars, raw, documents, chunks, doc_index, windowVars,
                   validatorVars, clock, extractorVars, requestVars, page_no,
                   all_poems, max_pages>>

\* lines 295-305: main is run again; a new collector over the same output directory
WikipediaRunAgain ==
    /\ persona = "wikipedia" /\ pc = "saved"
    /\ runs < MaxRuns
    /\ wikipedia_articles' = << >> /\ collection_log' = << >>
    /\ article_index' = 0
    /\ pc' = "collecting"
    /\ UNCHANGED <<persona, files, processorVars, extractorVars, requestVars, page_no,
                   all_poems, max_pages>>

NextCollector ==
    \/ StartPage
    \/ RequestFails
    \/ \E data \in Responses : RequestSucceeds(data)
    \/ \E outcome \in Outcomes : CollectArticle(outcome)
    \/ WikipediaRunAgain

SpecCollector == (InitCollector \/ InitWikipedia) /\ [][NextCollector]_vars

-----------------------------------------------------------------------------
(* Properties *)

Finished == {"chunked", "saved", "crashed", "validated", "crashed_validated"}

\* the chunk list and the document list a processor run produces
OutputChunks == IF persona = "dufu" THEN training_chunks ELSE chunks

OutputDocuments == IF persona = "dufu" THEN structured_documents ELSE documents

Bit(b) == IF b THEN 1 ELSE 0

Distinct(s) == \A i, j \in DOMAIN s : i # j => s[i] # s[j]

\* The chunks the Du Fu chunker emitted in the loop iteration of document i:
\* every iteration starts with a poem_content chunk, so iteration i spans from
\* the i-th poem_content chunk up to the next one.
PrimaryPositions ==
    SelectSeq(Indices(training_chunks),
              LAMBDA j : training_chunks[j].chunk_type = "poem_content")

ChunksOfDocument(i) ==
    LET pp == PrimaryPositions
    IN  SubSeq(training_chunks, pp[i],
               IF i < Len(pp) THEN pp[i + 1] - 1 ELSE Len(training_chunks))

DuFuFirstRunDone == persona = "dufu" /\ runs = 1 /\ pc \in Finished

\* C1: for every structured document d of a Du Fu run (poem_id values not
\* assumed distinct), the number of chunks emitted for d is between 1 and 3 and
\* equals 1 + [d.metadata.has_allusions] + [d.metadata.has_annotations].
C1_ChunkCountMatchesFlags ==
    DuFuFirstRunDone =>
        /\ Len(PrimaryPositions) = Len(structured_documents)
        /\ \A i \in DOMAIN structured_documents :
              LET d == structured_documents[i]
                  n == Len(ChunksOfDocument(i))
              IN  /\ 1 <= n /\ n <= 3
                  /\ n = 1 + Bit(d.metadata.has_allusions)
                           + Bit(d.metadata.has_annotations)

\* C2: after one processing run of any persona processor, no two distinct
\* chunks of the output chunk list carry the same chunk id.
C2_ChunkIdsUnique ==
    (runs = 1 /\ pc \in Finished) =>
        Distinct([i \in DOMAIN OutputChunks |-> ChunkIdOf(OutputChunks[i])])

\* the source records of the run are pairwise distinct: poem_id values for
\* Du Fu, title strings for Queen Elizabeth II
SourceRecordsDistinct ==
    IF persona = "dufu"
    THEN Distinct([i \in DOMAIN poems |-> poems[i].poem_id])
    ELSE LET all == <<raw.biography>> \o raw.articles
         IN  Distinct([i \in DOMAIN all |-> all[i].title])

MappedOnce ==
    \/ runs = 0 /\ pc \in {"mapped", "chunking", "window"}
    \/ runs = 1 /\ pc \in Finished

\* C3: after one mapping pass over pairwise distinct source records, no two
\* structured documents of the persona have the same id; the Du Fu id is
\* 'dufu_' + poem_id.
C3_DocumentIdsUnique ==
    (persona \in {"dufu", "qe2"} /\ MappedOnce /\ SourceRecordsDistinct) =>
        /\ Distinct([i \in DOMAIN OutputDocuments |-> OutputDocuments[i].id])
        /\ persona = "dufu" =>
              \A i \in DOMAIN poems :
                  structured_documents[i].id = <<"dufu_">> \o poems[i].poem_id

\* the field of a chunk that names its document, per persona
SourceField(c) == IF persona = "qe2" THEN c.document_id ELSE c.source_document_id

Resolves(cs, docs) ==
    \A i \in DOMAIN cs : \E j \in DOMAIN docs : docs[j].id = SourceField(cs[i])

\* C4: in the output of every persona processor, in memory and as saved, each
\* chunk's source document id equals the id of a structured document present
\* in the same run's document list.
C4_ReferentialIntegrity ==
    /\ Resolves(OutputChunks, OutputDocuments)
    /\ Resolves(wchunks, OutputDocuments)
    /\ "training_chunks.json" \in DOMAIN files =>
          Resolves(files["training_chunks.json"], files["structured_documents.json"])

C4_Witness ==
    /\ persona = "qe2" /\ pc = "saved"
    /\ Len(files["structured_documents.json"]) = 2
    /\ Len(files["training_chunks.json"]) >= 3

\* C5: _chunk_document terminates for every word sequence and every
\* (chunk_size, overlap): an iteration of the loop is followed by another one
\* only if it advanced the window start.
C5_WindowingStopsWithoutAdvance == [][WindowStep => start' > start]_vars

\* the words of chunk k of a window list
WindowWords(cs, k) == Split(cs[k].content)

\* the first window in full, then each later window without its first ov words
Reconstruct(cs, ov) ==
    Concat([k \in DOMAIN cs |->
              IF k = 1 THEN WindowWords(cs, k)
              ELSE Slice(WindowWords(cs, k), ov, Len(WindowWords(cs, k)))])

Returned == pc = "returned" /\ 0 <= overlap /\ overlap < chunk_size

\* C6: for 0 <= overlap < chunk_size, the first window in full followed by
\* each later window without its first `overlap` words, in chunk_index order,
\* is exactly the document's word sequence; the last window has between 1 and
\* chunk_size words whenever the document has a word.
C6_WindowingCoverage ==
    Returned =>
        LET ws == Split(document.content.full_text)
        IN  /\ \A k \in DOMAIN wchunks : wchunks[k].chunk_index = k - 1
            /\ Reconstruct(wchunks, overlap) = ws
            /\ Len(ws) >= 1 =>
                  /\ Len(wchunks) >= 1
                  /\ Len(WindowWords(wchunks, Len(wchunks))) \in 1..chunk_size

C6_Witness ==
    /\ Returned
    /\ overlap >= 2
    /\ Len(wchunks) >= 3
    /\ Len(WindowWords(wchunks, Len(wchunks))) < overlap

\* C7: for n words, chunk_size W and overlap o (0 <= o < W), window k starts at
\* word offset k*(W-o) and has min(W, n - k*(W-o)) words, for exactly the k
\* with k*(W-o) < n; 1200 words with W = 500, o = 100 give 3 windows at
\* offsets 0, 400, 800 of 500, 500 and 400 words.
C7_WindowPositions ==
    Returned =>
        LET ws == Split(document.content.full_text)
            n == Len(ws)
            s == chunk_size - overlap
            K == {k \in 0..n : k * s < n}
        IN  /\ Len(wchunks) = Cardinality(K)
            /\ \A k \in K :
                  /\ wchunks[k + 1].chunk_index = k
                  /\ WindowWords(wchunks, k + 1)
                        = SubSeq(ws, k * s + 1, k * s + Min(chunk_size, n - k * s))
                  /\ wchunks[k + 1].word_count = Min(chunk_size, n - k * s)
            /\ (n = 1200 /\ chunk_size = 500 /\ overlap = 100) =>
                  /\ Len(wchunks) = 3
                  /\ [k \in 1..3 |-> wchunks[k].word_count] = <<500, 500, 400>>
                  /\ [k \in 1..3 |-> WindowWords(wchunks, k)[1]]
                        = << <<"1">>, <<"401">>, <<"801">> >>

C7_Witness ==
    /\ Returned
    /\ Len(words) = 1200 /\ chunk_size = 500 /\ overlap = 100
    /\ Len(wchunks) = 3

\* C8: every structured document, including one whose full text is empty,
\* yields at least one chunk, so a run never has fewer chunks than documents.
C8_EveryDocumentHasAChunk ==
    pc \in Finished =>
        /\ Len(OutputChunks) >= Len(OutputDocuments)
        /\ \A j \in DOMAIN OutputDocuments :
              \E i \in DOMAIN OutputChunks :
                  SourceField(OutputChunks[i]) = OutputDocuments[j].id

\* an issue or a warning of the validator names the chunk
Flagged(c) ==
    \E e \in Range(issues) \cup Range(warnings) : e.ref = ChunkIdOf(c)

\* C9: every chunk of a processor's saved output has content whose strip() is
\* non-empty, or else DatasetValidator records an entry naming the chunk.
C9_BlankChunksAreFlagged ==
    (pc = "validated" /\ runs = 1) =>
        \A c \in Range(files["training_chunks.json"]) :
            Strip(c.content) # << >> \/ Flagged(c)

\* C10: DuFuRAGProcessor emits an allusions_context chunk for a document if
\* and only if the source poem has an allusion whose text is non-empty.
C10_AllusionChunkIffNonEmptyAllusion ==
    (DuFuFirstRunDone /\ SourceRecordsDistinct) =>
        \A i \in DOMAIN poems :
            (\E c \in Range(ChunksOfDocument(i)) : c.chunk_type = "allusions_context")
            <=> (\E a \in Range(poems[i].allusions) : a.text # << >>)

\* the lines of a text: its pieces between "\n" tokens
RECURSIVE Lines(_)
Lines(s) ==
    IF \A i \in DOMAIN s : s[i] # "\n" THEN <<s>>
    ELSE LET i == CHOOSE k \in DOMAIN s :
                      s[k] = "\n" /\ \A m \in 1..(k - 1) : s[m] # "\n"
         IN  <<SubSeq(s, 1, i - 1)>> \o Lines(SubSeq(s, i + 1, Len(s)))

\* the indented lines of a context chunk, without their indent
ListedTexts(c) ==
    LET ls == SelectSeq(Lines(c.content), LAMBDA l : l # << >> /\ l[1] = "  ")
    IN  [k \in DOMAIN ls |-> Tail(ls[k])]

\* the numbers reported by the "... and N more" lines of a context chunk
Trailers(c) ==
    LET ls == SelectSeq(Lines(c.content), LAMBDA l : l # << >> /\ l[1] = "... and ")
    IN  [k \in DOMAIN ls |-> SubSeq(ls[k], 2, Len(ls[k]) - 1)]

\* the non-empty values of a field over a list of entries
NonEmptyTexts(entries, field) ==
    LET kept == SelectSeq(entries, LAMBDA e : e[field] # << >>)
    IN  [k \in DOMAIN kept |-> kept[k][field]]

\* the poem the chunker reads for document i: the first with its poem_id
PoemReadFor(i) ==
    poems[CHOOSE j \in DOMAIN poems :
              /\ poems[j].poem_id = poems[i].poem_id
              /\ \A m \in 1..(j - 1) : poems[m].poem_id # poems[i].poem_id]

\* Document i, whose poem has a title, 4 lines and 2 non-empty allusions,
\* yields a poem_content chunk with the title and the 4 lines, an
\* allusions_context chunk with exactly the 2 allusion texts and, when it has
\* annotations, an annotations_context chunk listing the first K of them, with
\* a trailer giving the number beyond K exactly when there are more than K.
AnnotatedChunksCutAt(i, K) ==
    LET cs == ChunksOfDocument(i)
        anns == PoemReadFor(i).text_annotations
        n == Len(anns)
    IN  /\ Len(cs) = 2 + Bit(n > 0)
        /\ cs[1].chunk_type = "poem_content"
        /\ <<"Poem Title: ">> \o poems[i].title \in Range(Lines(cs[1].content))
        /\ Range(poems[i].lines) \subseteq Range(Lines(cs[1].content))
        /\ cs[2].chunk_type = "allusions_context"
        /\ ListedTexts(cs[2]) = NonEmptyTexts(PoemReadFor(i).allusions, "text")
        /\ Len(ListedTexts(cs[2])) = 2
        /\ n > 0 =>
              /\ cs[3].chunk_type = "annotations_context"
              /\ ListedTexts(cs[3]) = NonEmptyTexts(SubSeq(anns, 1, Min(n, K)), "content")
              /\ Trailers(cs[3]) = IF n > K THEN <<Decimal(n - K)>> ELSE << >>

BlockHeaders ==
    {<<"Poem:">>, <<"Creation Information:">>, <<"Literary Characteristics:">>,
     <<"Allusions:">>, <<"Annotations:">>}

\* every block header of the text is followed by a content line, and the
\* "Title: " label by the title on its line
NoEmptyHeaders(text) ==
    LET ls == Lines(text)
    IN  \A k \in DOMAIN ls :
            /\ ls[k] \in BlockHeaders => (k < Len(ls) /\ ls[k + 1] # << >>)
            /\ (ls[k] # << >> /\ ls[k][1] = "Title: ") => Len(ls[k]) > 1

\* C12: in the full_text of every structured document the Du Fu mapper builds,
\* each labelled block header appears only when a content line follows it,
\* also for poems whose allusion or annotation entries all have empty text.
C12_NoEmptyHeaders ==
    persona = "dufu" =>
        \A i \in DOMAIN structured_documents :
            NoEmptyHeaders(structured_documents[i].content.full_text)

\* the mapper ran twice over the same poems, on the same processor
MappedTwice == persona = "dufu" /\ Len(structured_documents) = 2 * Len(poems)

\* C13: mapping the same raw poem in two runs at different times gives the
\* same document: the same id 'dufu_' + poem_id, title, content block and
\* metadata block, and no other value differs either, except the processing
\* timestamp source.processed.
C13_MapperIdempotent ==
    MappedTwice =>
        \A i \in DOMAIN poems :
            LET a == structured_documents[i]
                b == structured_documents[Len(poems) + i]
            IN  /\ a.id = b.id
                /\ b.id = <<"dufu_">> \o poems[i].poem_id
                /\ a.title = b.title
                /\ a.content = b.content
                /\ a.metadata = b.metadata
                /\ [a EXCEPT !.source.processed = << >>]
                      = [b EXCEPT !.source.processed = << >>]

C13_Witness ==
    /\ MappedTwice
    /\ Len(poems) = 2
    /\ structured_documents[1].source.processed # structured_documents[3].source.processed
    /\ structured_documents[1].content.full_text # << >>

Validated == pc \in {"validated", "crashed_validated"}

\* C14: validate() returns True if and only if the issues list is empty when
\* it returns, whatever the number of warnings, and main() exits with code 0
\* exactly when validate() returned True and with code 1 otherwise.
C14_PassIffNoIssues ==
    Validated =>
        /\ result <=> (issues = << >>)
        /\ exit_code = (IF result THEN 0 ELSE 1)

C14_Witness ==
    /\ Validated
    /\ result /\ exit_code = 0
    /\ Len(warnings) >= 2

\* the dataset a validation run reads
DatasetDocuments == files["structured_documents.json"]

DatasetChunks == files["training_chunks.json"]

\* the chunks whose source document id names no document of the dataset
Orphans ==
    {i \in DOMAIN DatasetChunks :
        /\ SourceIdOf(DatasetChunks[i]) # << >>
        /\ \A j \in DOMAIN DatasetDocuments :
              Get(DatasetDocuments[j], "id", NoValue) # SourceIdOf(DatasetChunks[i])}

\* the positions of a list of ids that repeat an id of an earlier position
Repeats(ids) ==
    {i \in DOMAIN ids : ids[i] # << >> /\ \E j \in 1..(i - 1) : ids[j] = ids[i]}

DocumentIdList == [i \in DOMAIN DatasetDocuments |-> Get(DatasetDocuments[i], "id", NoValue)]

ChunkIdList == [i \in DOMAIN DatasetChunks |-> ChunkIdOf(DatasetChunks[i])]

\* the dataset has all its files, documents and chunks with all their fields
\* and ids, and no repeated id
SoundButForOrphans ==
    /\ RequiredFiles \subseteq DOMAIN files
    /\ DatasetDocuments # << >> /\ DatasetChunks # << >>
    /\ \A i \in DOMAIN DatasetDocuments :
          {"id", "title", "type", "content"} \subseteq DOMAIN DatasetDocuments[i]
    /\ \A i \in DOMAIN DatasetChunks :
          ChunkIdOf(DatasetChunks[i]) # << >> /\ SourceIdOf(DatasetChunks[i]) # << >>
    /\ Repeats(DocumentIdList) = {} /\ Repeats(ChunkIdList) = {}

\* the dataset has all its files, at least one document and one chunk
NonEmptyDataset ==
    /\ RequiredFiles \subseteq DOMAIN files
    /\ DatasetDocuments # << >> /\ DatasetChunks # << >>

EntriesOf(entries, kind) == SelectSeq(entries, LAMBDA e : e.kind = kind)

C16_DuplicateIdsAreIssues ==
    (Validated /\ NonEmptyDataset) =>
        /\ Len(EntriesOf(issues, "Duplicate document ID"))
              = Cardinality(Repeats(DocumentIdList))
        /\ Len(EntriesOf(issues, "Duplicate chunk ID"))
              = Cardinality(Repeats(ChunkIdList))
        /\ (Repeats(DocumentIdList) # {} \/ Repeats(ChunkIdList) # {}) => ~result

\* an issue of the validator names the record id
HasIssueNaming(id) == \E e \in Range(issues) : e.ref = id

\* C17: the validator records an issue for every document and every chunk
\* whose content is empty or whitespace-only, so a dataset that holds such a
\* record does not pass validation.
C17_EmptyContentIsAnIssue ==
    (Validated /\ SoundButForOrphans) =>
        /\ \A d \in Range(DatasetDocuments) :
              Strip(Get(d, "content", << >>)) = << >> =>
                  (HasIssueNaming(Get(d, "id", NoValue)) /\ ~result)
        /\ \A c \in Range(DatasetChunks) :
              Strip(Get(c, "content", << >>)) = << >> =>
                  (HasIssueNaming(ChunkIdOf(c)) /\ ~result)

\* C18: when validate() has found a hard issue on a document, chunk
\* validation and cross-validation have still run in the same call: the
\* repeated chunk ids, the chunks without id and the orphans of the dataset
\* are recorded next to the document issue.
C18_NoFailFast ==
    (/\ Validated
     /\ RequiredFiles \subseteq DOMAIN files
     /\ \/ EntriesOf(issues, "Duplicate document ID") # << >>
        \/ EntriesOf(issues, "Document missing field") # << >>) =>
        /\ loaded_chunks = DatasetChunks
        /\ Repeats(ChunkIdList) # {} => EntriesOf(issues, "Duplicate chunk ID") # << >>
        /\ (\E c \in Range(DatasetChunks) : ChunkIdOf(c) = << >>) =>
              EntriesOf(issues, "Chunk missing ID field") # << >>
        /\ Orphans # {} =>
              EntriesOf(warnings, "chunks reference non-existent documents") # << >>

\* C19: every stage writes its report artifact on every run that gets past
\* loading its input: validate() writes validation_report.json also when it
\* found hard issues, and the Du Fu and Queen Elizabeth II process_all write
\* processing_report.json also for zero documents or zero chunks.
C19_ReportAlwaysWritten ==
    /\ (Validated /\ RequiredFiles \subseteq DOMAIN files) => ReportFile \in DOMAIN files
    /\ (persona \in {"dufu", "qe2"}
        /\ pc \in {"saved", "crashed", "validated", "crashed_validated"}) =>
          "processing_report.json" \in DOMAIN files

\* C20: no step of validate() changes structured_documents.json,
\* training_chunks.json or dataset_metadata.json, nor the records it loaded
\* from them; of the directory it writes validation_report.json only.
C20_ValidationIsObservational ==
    [][Validate =>
          /\ \A n \in DOMAIN files : n # "validation_report.json" =>
                (n \in DOMAIN files' /\ files'[n] = files[n])
          /\ DOMAIN files' \subseteq DOMAIN files \cup {"validation_report.json"}
          /\ loaded_documents' \in {<< >>, files["structured_documents.json"]}
          /\ loaded_chunks' \in {<< >>, files["training_chunks.json"]}
          /\ UNCHANGED <<persona, runs, dufuVars, raw, documents, chunks>>]_vars

C20_Witness ==
    /\ Validated
    /\ "validation_report.json" \in DOMAIN files
    /\ files["validation_report.json"].summary.total_warnings >= 1
    /\ loaded_chunks = files["training_chunks.json"]
    /\ Len(loaded_chunks) = 2


\* the Poem elements of a list of elements, in document order
PoemsIn(elements) == SelectSeq(elements, LAMBDA e : e.tag = "Poem")

\* those of them whose AU attribute is the poet's name
DuFuPoemsIn(elements) ==
    SelectSeq(PoemsIn(elements), LAMBDA e : "AU" \in DOMAIN e.attrs /\ e.attrs.AU = DuFuName)

Scanning == persona = "extractor"

Extracted == persona = "extractor" /\ pc = "extracted"

\* C21: when extract_all_dufu_poems has returned, dufu_poems holds the
\* records of exactly the Poem elements whose AU is the poet's name, in
\* document order, and total_poems_scanned is the number of Poem elements
\* of the file; at every step of the scan dufu_poems_found is the length
\* of dufu_poems and is at most total_poems_scanned.
C21_ExtractsTheMatchingSubsequence ==
    Scanning =>
        /\ extractor_stats.dufu_poems_found = Len(dufu_poems)
        /\ Len(dufu_poems) <= extractor_stats.total_poems_scanned
        /\ Extracted =>
              /\ extractor_stats.total_poems_scanned = Len(PoemsIn(xml))
              /\ dufu_poems = [i \in DOMAIN DuFuPoemsIn(xml) |->
                                  ExtractPoemData(DuFuPoemsIn(xml)[i])]

\* a file of three Poem elements was scanned: the poet's, another poet's, the poet's
C21_Witness ==
    /\ Extracted
    /\ Len(xml) = 3 /\ Len(PoemsIn(xml)) = 3
    /\ Len(DuFuPoemsIn(<<xml[2]>>)) = 0
    /\ Len(dufu_poems) = 2
    /\ dufu_poems[1].poem_id # dufu_poems[2].poem_id


\* the elements whose end event the scan has handled
ScannedElements == SubSeq(xml, 1, scan_pos)

\* C22: once a matching record has been scanned, dufu_author_id is the AId
\* attribute value of the first matching record ('' when it has none), at
\* every later step of the scan and when it ends.
C22_AuthorIdOfFirstMatch ==
    (Scanning /\ DuFuPoemsIn(ScannedElements) # << >>) =>
        LET first == DuFuPoemsIn(ScannedElements)[1]
        IN  extractor_stats.dufu_author_id =
                (IF "AId" \in DOMAIN first.attrs THEN first.attrs.AId ELSE << >>)

\* C23: after every iteration the root refers to at most the element just
\* scanned, and every Poem element it still refers to has been emptied, so
\* the elements kept alive do not grow with the number of records scanned.
C23_ScannedElementsAreReleased ==
    Scanning =>
        /\ Len(root_children) <= 1
        /\ \A i \in DOMAIN root_children :
              root_children[i].tag = "Poem" => root_children[i].children = << >>


\* the attribute each string field of a poem record is read from
AttributeOfField ==
    [poem_id |-> "Id", author |-> "AU", author_id |-> "AId", dynasty |-> "D",
     creation_date |-> "AD", group_number |-> "G", place_code |-> "AP",
     poem_type |-> "T", poem_type_detail |-> "TD", rhyme_category |-> "R",
     rhyme_number |-> "RA", final_rhyme |-> "FR"]

\* the list fields each child group of a Poem fills
FieldsOfGroup ==
    [Title |-> {"title", "title_annotations"},
     Jus |-> {"lines", "line_tones", "line_rhymes", "line_annotations"},
     As |-> {"allusions"},
     Fs |-> {"source_books"},
     SIs |-> {"sentence_indices"}]

TypedLists ==
    [Text |-> "text_annotations", WordDictInJson |-> "word_dict_annotations",
     CharDictInJson |-> "char_dict_annotations",
     AllusionKey |-> "allusion_key_annotations", Image |-> "image_annotations"]

PoemFields ==
    DOMAIN AttributeOfField \cup {"has_title"} \cup UNION {FieldsOfGroup[g] : g \in DOMAIN FieldsOfGroup}
        \cup {TypedLists[t] : t \in DOMAIN TypedLists}

\* the N elements anywhere below an element whose T attribute is the type
NotesOfType(elem, type) ==
    SelectSeq(Descendants(elem),
              LAMBDA n : n.tag = "N" /\ "T" \in DOMAIN n.attrs /\ n.attrs.T = <<type>>)

\* the N elements below an element whose type is none of the five
UnlistedNotes(elem) ==
    SelectSeq(Descendants(elem),
              LAMBDA n : /\ n.tag = "N"
                         /\ \A t \in DOMAIN TypedLists :
                               "T" \notin DOMAIN n.attrs \/ n.attrs.T # <<t>>)

HasGroup(elem, tag) == \E i \in DOMAIN elem.children : elem.children[i].tag = tag

\* the record of a Poem element is complete and defaults what is missing
CompleteRecord(record, elem) ==
    /\ DOMAIN record = PoemFields
    /\ \A f \in DOMAIN AttributeOfField :
          AttributeOfField[f] \notin DOMAIN elem.attrs => record[f] = << >>
    /\ "TS" \notin DOMAIN elem.attrs => record.has_title = FALSE
    /\ \A g \in DOMAIN FieldsOfGroup :
          ~HasGroup(elem, g) => \A f \in FieldsOfGroup[g] : record[f] = << >>
    /\ \A t \in DOMAIN TypedLists :
          /\ Len(record[TypedLists[t]]) = Len(NotesOfType(elem, t))
          /\ \A i \in DOMAIN record[TypedLists[t]] :
                LET n == NotesOfType(elem, t)[i]
                IN  /\ record[TypedLists[t]][i].content = n.text
                    /\ "I" \in DOMAIN n.attrs => record[TypedLists[t]][i].index = n.attrs.I

FilesKept == \A n \in DOMAIN files : n \in DOMAIN files' /\ files'[n] = files[n]

\* the log has only grown at its end
LogKept ==
    /\ Len(collection_log) <= Len(collection_log')
    /\ SubSeq(collection_log', 1, Len(collection_log)) = collection_log

\* the request of the page failed for good in this step
PageFailed == pc = "requesting" /\ pc' = "collected" /\ response' = None

\* every article wikipedia_articles.json held is still in it, with its content
SavedArticlesKept ==
    "wikipedia_articles.json" \in DOMAIN files =>
        \A i \in DOMAIN files["wikipedia_articles.json"] :
            \E j \in DOMAIN files'["wikipedia_articles.json"] :
                /\ files'["wikipedia_articles.json"][j].original_title
                       = files["wikipedia_articles.json"][i].original_title
                /\ files'["wikipedia_articles.json"][j].content
                       = files["wikipedia_articles.json"][i].content

\* C25: no step of collect_poems changes a page file or a log entry
\* written before, and the step in which a page fails after all retries
\* writes nothing; no step of the Wikipedia collector, in this run or in
\* a later run into the same directory, removes an article from
\* wikipedia_articles.json.
C25_FailuresLeaveOutputIntact ==
    [][/\ persona = "collector" =>
              /\ FilesKept /\ LogKept
              /\ PageFailed => (files' = files /\ collection_log' = collection_log)
       /\ persona = "wikipedia" => SavedArticlesKept]_vars


Collecting == persona = "collector"

C29_AsManyRequestsAsAttempts ==
    [][Collecting =>
          /\ requests' <= request_config.retry_attempts
          /\ PageFailed => requests' = request_config.retry_attempts
          /\ (pc = "requesting" /\ response' # None) => pc' # "requesting"]_vars


\* the ids of the source records of a Du Fu or Elon Musk run are pairwise
\* distinct: poem_id values, and the ids the Elon Musk loader assigns
AccumulatedSourceIdsDistinct ==
    IF persona = "dufu"
    THEN Distinct([i \in DOMAIN poems |-> poems[i].poem_id])
    ELSE Distinct([i \in DOMAIN MuskLoadDocuments(raw) |-> MuskLoadDocuments(raw)[i].id])

\* C26: after any number of calls of process_all on one DuFuRAGProcessor or
\* ElonMuskDataProcessor whose source ids are pairwise distinct, no two
\* chunks of the accumulated chunk list have the same chunk id and no two
\* documents of the accumulated document list have the same id.
C26_AccumulatedIdsUnique ==
    (persona \in {"dufu", "musk"} /\ runs >= 1 /\ pc \in Finished
        /\ AccumulatedSourceIdsDistinct) =>
        /\ Distinct([i \in DOMAIN OutputChunks |-> ChunkIdOf(OutputChunks[i])])
        /\ Distinct([i \in DOMAIN OutputDocuments |-> OutputDocuments[i].id])


\* the place of a chunk type in the order of emission
TypeRank(type) ==
    CASE type = "poem_content" -> 1
      [] type = "allusions_context" -> 2
      [] type = "annotations_context" -> 3

\* C27: after a run of DuFuRAGProcessor the documents are in the order of
\* the input poems, the chunks of a document follow those of the document
\* before it, the chunks of one document are in the order poem_content,
\* allusions_context, annotations_context, and the k-th chunk of the
\* output list has sequence number k, counted from 1.
C27_OrderFollowsTheInput ==
    DuFuFirstRunDone =>
        /\ Len(structured_documents) = Len(poems)
        /\ \A i \in DOMAIN poems : structured_documents[i].source.poem_id = poems[i].poem_id
        /\ Len(PrimaryPositions) = Len(structured_documents)
        /\ \A i \in DOMAIN structured_documents :
              LET cs == ChunksOfDocument(i)
              IN  /\ \A k \in DOMAIN cs : cs[k].source_document_id = structured_documents[i].id
                  /\ \A j, k \in DOMAIN cs :
                        j < k => TypeRank(cs[j].chunk_type) < TypeRank(cs[k].chunk_type)
        /\ \A k \in DOMAIN training_chunks :
              training_chunks[k].chunk_id = <<"dufu_chunk_">> \o ZeroPad(Decimal(k), 4)

\* two poems with different ids were processed, the first into three chunks
C27_Witness ==
    /\ DuFuFirstRunDone
    /\ Len(poems) = 2 /\ poems[1].poem_id # poems[2].poem_id
    /\ Len(ChunksOfDocument(1)) = 3
    /\ Len(training_chunks) >= 4


\* C30: a validation_report.json in the directory after validate() has
\* status 'passed' exactly when validate() returned True and 'failed'
\* exactly when it returned False, and its summary.total_issues is the
\* number of issues recorded; a run over a dataset with its three files,
\* a document and a chunk that returns False leaves a report with status
\* 'failed'.
C30_ReportStatusMatchesResult ==
    Validated =>
        /\ ReportFile \in DOMAIN files =>
              /\ files[ReportFile].status = "passed" <=> result
              /\ files[ReportFile].status = "failed" <=> ~result
              /\ files[ReportFile].summary.total_issues = Len(issues)
        /\ (~result /\ NonEmptyDataset) =>
              /\ ReportFile \in DOMAIN files
              /\ files[ReportFile].status = "failed"

====
